---- MODULE Spec2Model ----
(***************************************************************************)
(* A model of qsiprep/interfaces/dwipreproc.py: the dwipreproc script that *)
(* drives FSL topup / applytopup / eddy over a DWI series.                  *)
(*                                                                         *)
(* Representation.                                                         *)
(*  - A gradient-table row is <<gx, gy, gz, b>>.  The direction components *)
(*    are fixed-point numbers counted in halves (2 is 1.0, 1 is 0.5), the  *)
(*    b-value is in its own units.                                         *)
(*  - A phase-encoding row is <<dx, dy, dz, t>> with t the total readout   *)
(*    time counted in 1/5120 s, so that 0.1 s is 512 and the tolerance of  *)
(*    5e-3 s is 25.6.  The times of the input sets are multiples of 5,     *)
(*    that is of 1/1024 s: such times and their differences are exact in   *)
(*    binary floating point, as are the halves of the gradient directions. *)
(*  - Tables indexed by volume are functions on 0..n-1, as in the script.  *)
(*  - Python's None / empty list / empty string is the empty tuple <<>> or *)
(*    the empty string; a missing -readout_time is 0, which is all the     *)
(*    script's truth tests (`if app.args.readout_time:`) can tell.         *)
(***************************************************************************)
EXTENDS Integers, Sequences, FiniteSets, TLC

\* Largest number of DWI volumes of an input series.
MaxVols == 4

VARIABLES
    pc,                          \* position of the script
    args,                        \* app.args: the parsed command line
    dwi_header,                  \* image.Header('dwi.mif') as imported
    PE_design,
    dwi_num_volumes,
    grad,                        \* dwi_header.keyval()['dw_scheme']
    dwi_pe_scheme,
    manual_pe_dir,
    manual_trt,
    trt,
    dwi_auto_trt_warning,
    dwi_manual_pe_scheme,
    se_epi_manual_pe_scheme,
    grad_pairs,                  \* -rpe_all first-half / second-half pairs
    overwrite_dwi_pe_scheme,
    import_dwi_pe_table_option,
    do_topup,
    volume_matchings,
    volume_pairs,
    result,                      \* what result.mif holds
    warnings,                    \* messages passed to app.warn
    errmsg,                      \* message passed to app.error
    env,                         \* FSL installation found by the script
    se_epi_header,               \* image.Header('se_epi.mif'), when -se_epi is given
    geometry,                    \* the image grids of the two input series
    tmp,                         \* the temporary directory and what was read from it
    se_epi_path,                 \* without its extension .mif; "" for None
    se_epi_volumes,              \* number of volumes of the image se_epi_path names
    dwi_path,                    \* without its extension .mif
    se_epi_pe_scheme,
    overwrite_se_epi_pe_scheme,
    dwi_first_bzero_index,
    dwi_bzero_added_to_se_epi,
    eddy_config,                 \* rows of eddy_config.txt
    eddy_indices,                \* eddy_indices.txt: per volume handed to eddy, from 1
    bvecs,                       \* the file 'bvecs', one direction per volume handed to eddy
    eddy_rotated_bvecs,          \* dwi_post_eddy.eddy_rotated_bvecs, <<>> when eddy wrote none
    bvecs_path,
    eddy_outputs,                \* what the CUDA and the OpenMP run of eddy left behind
    cmds,                        \* external tools invoked so far, in order
    files,                       \* text files the script has written itself
    ret,                         \* value returned by a function under test
    eddy_manual_options,         \* -eddy_options: is --mporder there, and the --slspec files
    dwi_slices,                  \* slice count and slice keys of the header of dwi.mif
    eddy_mporder,
    slice_encoding_direction,
    slice_groups,                \* groups of slice indices, counted from 0
    slice_timing,
    dwi_num_slices

in_vars == <<args, env, dwi_header, se_epi_header, geometry, dwi_slices>>

slice_vars == <<eddy_manual_options, eddy_mporder, slice_encoding_direction, slice_groups,
                slice_timing, dwi_num_slices>>

io_vars == <<tmp, se_epi_path, dwi_path, se_epi_volumes>>

import_vars == <<dwi_num_volumes, grad>>

manual_vars == <<manual_pe_dir, manual_trt, trt, dwi_auto_trt_warning, grad_pairs>>

reconcile_vars == <<overwrite_dwi_pe_scheme, import_dwi_pe_table_option>>

seepi_vars == <<se_epi_pe_scheme, overwrite_se_epi_pe_scheme, dwi_first_bzero_index,
                dwi_bzero_added_to_se_epi>>

eddy_vars == <<eddy_config, eddy_indices, bvecs, eddy_rotated_bvecs, bvecs_path, eddy_outputs>>

match_vars == <<volume_matchings, volume_pairs>>

vars == <<pc, in_vars, PE_design, import_vars, dwi_pe_scheme, manual_vars,
          dwi_manual_pe_scheme, se_epi_manual_pe_scheme, reconcile_vars, seepi_vars,
          do_topup, eddy_vars, match_vars, result, warnings, errmsg, cmds, files, ret,
          io_vars, slice_vars>>

----------------------------------------------------------------------------
(* Helpers for Python built-ins.                                           *)

Abs(x) == IF x < 0 THEN -x ELSE x

\* any([val for val in row[0:3]])
any_direction(row) == row[1] # 0 \/ row[2] # 0 \/ row[3] # 0

----------------------------------------------------------------------------
(* grads_match                                                             *)

dot_product(one, two) == one[1] * two[1] + one[2] * two[2] + one[3] * two[3]

\* abs(dot_product) < 0.999, the components being counted in halves
dot_below_threshold(one, two) == 1000 * Abs(dot_product(one, two)) < 999 * 4

\* abs(one[3] - two[3]) > 10.0
bvalue_differs_noabs(one, two) == one[4] - two[4] > 10

bvalue_differs(one, two) == Abs(one[4] - two[4]) > 10

grads_match_noelif(one, two) ==
    IF any_direction(one)
    THEN IF ~any_direction(two) THEN FALSE
         ELSE IF dot_below_threshold(one, two) THEN FALSE
         ELSE ~bvalue_differs(one, two)
    ELSE ~bvalue_differs(one, two)

grads_match(one, two) ==
    IF any_direction(one)
    THEN IF ~any_direction(two) THEN FALSE
         ELSE IF dot_below_threshold(one, two) THEN FALSE
         ELSE ~bvalue_differs(one, two)
    ELSE IF any_direction(two) THEN FALSE
    ELSE ~bvalue_differs(one, two)

----------------------------------------------------------------------------
(* The state before the script has done anything.                          *)

NoArgs ==
    [rpe_none |-> FALSE, rpe_pair |-> FALSE, rpe_all |-> FALSE, rpe_header |-> FALSE,
     pe_dir |-> <<>>, readout_time |-> 0, se_epi |-> FALSE, align_seepi |-> FALSE]

GoodEnv == [FSLDIR |-> TRUE, topup_config |-> TRUE, eddy_cuda |-> FALSE, eddy_openmp |-> TRUE]

NoHeader == [num_volumes |-> 0, dw_scheme |-> <<>>, pe_scheme |-> <<>>]

NoResult ==
    [kind |-> "", volumes |-> <<>>, bvecs |-> <<>>, bvals |-> <<>>, pe_indices |-> <<>>,
     weights |-> <<>>, field_gradient |-> <<>>]

\* No temporary directory yet.  live: the files in it; deleted: the files
\* that were in it and are gone; stale: the <<command, file>> for which the
\* command was given a file that was not in it; log: the commands, writes and
\* deletions so far, in order.
NoTmp == [created |-> FALSE, live |-> {}, deleted |-> {}, stale |-> {}, log |-> <<>>]

\* Axes 0..2 of even size, and the SE-EPI series on the grid of the DWIs.
PlainGeometry == [odd_axes |-> <<>>, grids_match |-> TRUE]

\* run.command(cmd) reading and writing temporary files.
run_command(cmd, reads, writes) == [op |-> "run", cmd |-> cmd, reads |-> reads, writes |-> writes]

\* open(name, 'w') by the script itself.
open_w(name) == [op |-> "run", cmd |-> "open", reads |-> {}, writes |-> {name}]

\* file.delTemporary / os.remove
delTemporary(names) == [op |-> "del", cmd |-> "", reads |-> {}, writes |-> names]

\* The temporary directory after one event.
io_step(t, e) ==
    IF e.op = "run"
    THEN [t EXCEPT !.live = @ \cup e.writes,
                   !.deleted = @ \ e.writes,
                   !.stale = @ \cup {<<e.cmd, f>> : f \in e.reads \ t.live},
                   !.log = Append(@, e)]
    ELSE [t EXCEPT !.live = @ \ e.writes,
                   !.deleted = @ \cup (e.writes \cap t.live),
                   !.log = Append(@, e)]

\* The temporary directory after a sequence of events.
io_apply(t, events) ==
    LET T[k \in 0..Len(events)] == IF k = 0 THEN t ELSE io_step(T[k - 1], events[k])
    IN  T[Len(events)]

\* Everything the script computes, before it has computed it.
Unset ==
    /\ PE_design = ""
    /\ manual_pe_dir = <<>>
    /\ manual_trt = 0
    /\ trt = 0
    /\ dwi_auto_trt_warning = FALSE
    /\ dwi_manual_pe_scheme = <<>>
    /\ se_epi_manual_pe_scheme = <<>>
    /\ grad_pairs = <<>>
    /\ overwrite_dwi_pe_scheme = FALSE
    /\ import_dwi_pe_table_option = ""
    /\ do_topup = FALSE
    /\ se_epi_pe_scheme = <<>>
    /\ overwrite_se_epi_pe_scheme = FALSE
    /\ dwi_first_bzero_index = 0
    /\ dwi_bzero_added_to_se_epi = FALSE
    /\ eddy_config = <<>>
    /\ eddy_indices = <<>>
    /\ bvecs = <<>>
    /\ eddy_rotated_bvecs = <<>>
    /\ bvecs_path = ""
    /\ eddy_outputs = <<>>
    /\ volume_matchings = <<>>
    /\ volume_pairs = <<>>
    /\ result = NoResult
    /\ warnings = {}
    /\ errmsg = ""
    /\ cmds = <<>>
    /\ files = {}
    /\ ret = FALSE
    /\ tmp = NoTmp
    /\ se_epi_path = ""
    /\ se_epi_volumes = 0
    /\ dwi_path = ""
    /\ eddy_mporder = FALSE
    /\ slice_encoding_direction = <<>>
    /\ slice_groups = <<>>
    /\ slice_timing = <<>>
    /\ dwi_num_slices = 0

----------------------------------------------------------------------------
(* Command line and environment checks (app.parse() and lines 184-222).     *)

RpeFlags == {"rpe_none", "rpe_pair", "rpe_all", "rpe_header"}

\* The argument checks without the one on -align_seepi.
parse_error_no_align(a, e) ==
    IF Cardinality({f \in RpeFlags : a[f]}) # 1
    THEN "Must explicitly specify phase-encoding acquisition design (even if none)"
    ELSE IF a.rpe_none /\ a.se_epi
    THEN "Options -rpe_none and -se_epi are mutually exclusive"
    ELSE IF a.rpe_header /\ a.pe_dir # <<>>
    THEN "Options -rpe_header and -pe_dir are mutually exclusive"
    ELSE IF a.rpe_header /\ a.readout_time # 0
    THEN "Options -rpe_header and -readout_time are mutually exclusive"
    ELSE IF a.rpe_pair /\ ~a.se_epi
    THEN "If using the -rpe_pair option, the -se_epi option must be used"
    ELSE IF ~e.FSLDIR
    THEN "Environment variable FSLDIR is not set"
    ELSE IF ~a.rpe_none /\ ~e.topup_config
    THEN "Could not find necessary default config file for FSL topup command"
    ELSE IF ~e.eddy_cuda /\ ~e.eddy_openmp
    THEN "Could not find any version of FSL eddy command"
    ELSE ""

\* The message of the first fatal error of the argument checks, "" if none.
parse_error(a, e) ==
    IF Cardinality({f \in RpeFlags : a[f]}) # 1
    THEN "Must explicitly specify phase-encoding acquisition design (even if none)"
    ELSE IF a.rpe_none /\ a.se_epi
    THEN "Options -rpe_none and -se_epi are mutually exclusive"
    ELSE IF a.rpe_header /\ a.pe_dir # <<>>
    THEN "Options -rpe_header and -pe_dir are mutually exclusive"
    ELSE IF a.rpe_header /\ a.readout_time # 0
    THEN "Options -rpe_header and -readout_time are mutually exclusive"
    ELSE IF a.rpe_pair /\ ~a.se_epi
    THEN "If using the -rpe_pair option, the -se_epi option must be used"
    ELSE IF a.align_seepi /\ ~a.se_epi
    THEN "-align_seepi option is only applicable when the -se_epi option is also used"
    ELSE IF ~e.FSLDIR
    THEN "Environment variable FSLDIR is not set"
    ELSE IF ~a.rpe_none /\ ~e.topup_config
    THEN "Could not find necessary default config file for FSL topup command"
    ELSE IF ~e.eddy_cuda /\ ~e.eddy_openmp
    THEN "Could not find any version of FSL eddy command"
    ELSE ""

pe_design_of(a) ==
    IF a.rpe_none THEN "None"
    ELSE IF a.rpe_pair THEN "Pair"
    ELSE IF a.rpe_all THEN "All"
    ELSE IF a.rpe_header THEN "Header"
    ELSE ""

ParseArgs ==
    /\ pc = "parse"
    /\ IF parse_error(args, env) # ""
       THEN /\ pc' = "error"
            /\ errmsg' = parse_error(args, env)
            /\ UNCHANGED PE_design
       ELSE /\ pc' = "import"
            /\ PE_design' = pe_design_of(args)
            /\ UNCHANGED errmsg
    /\ UNCHANGED <<in_vars, slice_vars, import_vars, dwi_pe_scheme, manual_vars,
                   dwi_manual_pe_scheme, se_epi_manual_pe_scheme, reconcile_vars,
                   seepi_vars, do_topup, eddy_vars, match_vars, result, warnings, cmds, files,
                   ret,
                   io_vars>>

----------------------------------------------------------------------------
(* Slice timing for eddy's slice-to-volume correction (lines 324-382,       *)
(* 938-955 and 1041-1069).                                                  *)

ErrSliceAxis ==
    "DWI header indicates that 3rd spatial axis is not the slice axis"

ErrSlspecTwice == "--slspec option appears more than once in -eddy_options input"

ErrSlspecMissing == "Unable to find 'slspec' file provided via -eddy_options"

ErrNoSliceTiming ==
    "Cannot perform slice-to-volume correction in eddy: No slspec file provided, and no slice timing information present in header"

\* Line 379; building the message adds a number to a string, which ends the
\* run just as well.
ErrSliceTimingLength ==
    "Cannot use slice timing information in image header for slice-to-volume correction"

\* -eddy_options without --mporder and without --slspec.
NoEddyOptions == [mporder |-> FALSE, slspec |-> <<>>]

\* image.axis2dir of a direction along the third axis
axis2dir(string) == IF string = "k-" THEN <<0, 0, -1>> ELSE <<0, 0, 1>>

\* sum(slice_encoding_direction)
sum_direction(d) == d[1] + d[2] + d[3]

\* reversed(slice_timing)
reversed(timing) == [k \in 1..Len(timing) |-> timing[Len(timing) + 1 - k]]

RECURSIVE ascending(_)
\* sorted(S) for a set of numbers
ascending(S) ==
    IF S = {} THEN <<>>
    ELSE LET least == CHOOSE x \in S : \A y \in S : x <= y
         IN  <<least>> \o ascending(S \ {least})

\* Lines 343-382: what the import leaves in the slice variables, and the
\* message of its fatal error, "" if none.
slice_import(options, header) ==
    LET none == [error |-> "", direction |-> <<>>, groups |-> <<>>, timing |-> <<>>,
                 options |-> options]
        direction == IF header.SliceEncodingDirection # ""
                     THEN axis2dir(header.SliceEncodingDirection)
                     ELSE <<0, 0, 1>>
        set == [none EXCEPT !.direction = direction]
    IN  IF ~options.mporder THEN none
        ELSE IF header.SliceEncodingDirection # ""
                /\ header.SliceEncodingDirection \notin {"k", "k+", "k-"}
        THEN [none EXCEPT !.error = ErrSliceAxis]
        ELSE IF Len(options.slspec) > 1
        THEN [set EXCEPT !.error = ErrSlspecTwice]
        ELSE IF Len(options.slspec) = 1
        THEN IF options.slspec[1].isfile
             THEN [set EXCEPT !.groups = options.slspec[1].groups,
                              !.options = [options EXCEPT !.slspec = <<>>]]
             ELSE [set EXCEPT !.error = ErrSlspecMissing]
        ELSE IF header.SliceTiming = <<>>
        THEN [set EXCEPT !.error = ErrNoSliceTiming]
        ELSE IF Len(header.SliceTiming) # header.num_slices
        THEN [set EXCEPT !.timing = header.SliceTiming, !.error = ErrSliceTimingLength]
        ELSE [set EXCEPT !.timing = header.SliceTiming]

\* Lines 949-955: one more slice, a copy of the last one of an axis of
\* axis_size slices.
pad_slice_groups(groups, axis_size) ==
    [g \in 1..Len(groups) |->
        IF \E k \in 1..Len(groups[g]) : groups[g][k] = axis_size - 1
        THEN Append(groups[g], axis_size)
        ELSE groups[g]]

\* Lines 938-955, over the axes of odd size in turn; only the size of the
\* slice axis is needed, as the slice direction is zero along the others.
pad_slices(mporder, direction, axes, axis_size, num_slices, timing, groups) ==
    LET P[k \in 0..Len(axes)] ==
            IF k = 0 THEN [num |-> num_slices, timing |-> timing, groups |-> groups]
            ELSE IF mporder /\ direction[axes[k] + 1] # 0
            THEN [num |-> P[k - 1].num + 1,
                  timing |-> IF P[k - 1].timing # <<>>
                             THEN Append(P[k - 1].timing, P[k - 1].timing[Len(P[k - 1].timing)])
                             ELSE P[k - 1].timing,
                  groups |-> IF P[k - 1].timing # <<>>
                             THEN P[k - 1].groups
                             ELSE pad_slice_groups(P[k - 1].groups, axis_size)]
            ELSE P[k - 1]
    IN  P[Len(axes)]

RECURSIVE groups_by_time(_, _)
\* Lines 1050-1051: the slices of each distinct time, in order of time
\* and, within a time, of slice index.
groups_by_time(timing, times) ==
    IF times = {} THEN <<>>
    ELSE LET first == CHOOSE t \in times : \A u \in times : t <= u
         IN  <<ascending({k - 1 : k \in {j \in 1..Len(timing) : timing[j] = first}})>>
             \o groups_by_time(timing, times \ {first})

\* The slices named in a sequence of groups.
slices_of(groups) == UNION { {groups[g][k] : k \in 1..Len(groups[g])} : g \in 1..Len(groups) }

\* Lines 1042-1064: the timing vector and the groups written to slspec.txt.
\* The loop of line 1061 runs over new_slice_groups, which line 1060 has just
\* made empty, so that no group is appended.
slspec_groups(timing, groups, direction, num_slices) ==
    LET ordered == IF sum_direction(direction) < 0 THEN reversed(timing) ELSE timing
    IN  IF timing # <<>>
        THEN [timing |-> ordered,
              groups |-> groups_by_time(ordered, {ordered[k] : k \in 1..Len(ordered)})]
        ELSE IF groups # <<>> /\ sum_direction(direction) < 0
        THEN [timing |-> timing, groups |-> <<>>]
        ELSE [timing |-> timing, groups |-> groups]

----------------------------------------------------------------------------
(* Import of the input images and of their headers (lines 280-382).        *)

import_error(h) ==
    IF h.dw_scheme = <<>>
    THEN "No diffusion gradient table found"
    ELSE IF Cardinality(DOMAIN h.dw_scheme) # h.num_volumes
    THEN "Number of lines in gradient table does not match input image"
    ELSE ""

ImportImages ==
    /\ pc = "import"
    /\ cmds' = cmds \o (IF args.se_epi THEN <<"mrconvert", "mrconvert">>
                                       ELSE <<"mrconvert">>)
    /\ dwi_num_volumes' = dwi_header.num_volumes
    /\ dwi_pe_scheme' = dwi_header.pe_scheme
    /\ dwi_num_slices' = dwi_slices.num_slices
    /\ IF import_error(dwi_header) # ""
       THEN /\ pc' = "error"
            /\ errmsg' = import_error(dwi_header)
            /\ UNCHANGED <<grad, eddy_manual_options, eddy_mporder,
                           slice_encoding_direction, slice_groups, slice_timing>>
       ELSE LET s == slice_import(eddy_manual_options, dwi_slices)
            IN  /\ pc' = IF s.error # "" THEN "error" ELSE "manual"
                /\ grad' = dwi_header.dw_scheme
                /\ errmsg' = s.error
                /\ eddy_mporder' = eddy_manual_options.mporder
                /\ eddy_manual_options' = s.options
                /\ slice_encoding_direction' = s.direction
                /\ slice_groups' = s.groups
                /\ slice_timing' = s.timing
    /\ tmp' = io_apply([tmp EXCEPT !.created = TRUE],
                        <<run_command("mrconvert", {}, {"dwi.mif"})>>
                        \o (IF args.se_epi
                            THEN <<run_command("mrconvert", {}, {"se_epi.mif"})>>
                            ELSE <<>>))
    /\ se_epi_volumes' = IF args.se_epi THEN se_epi_header.num_volumes ELSE 0
    /\ UNCHANGED <<in_vars, PE_design, manual_vars, dwi_manual_pe_scheme,
                   se_epi_manual_pe_scheme, reconcile_vars, seepi_vars, do_topup,
                   eddy_vars, match_vars, result, warnings, files, ret, se_epi_path,
                   dwi_path>>

----------------------------------------------------------------------------
(* The manually specified phase-encoding tables (lines 411-540).           *)

\* Readout time assumed when -readout_time is not given: 0.1 s.
auto_trt == 512

pe_line(dir, t) == <<dir[1], dir[2], dir[3], t>>

\* [(-i if i else 0.0) for i in manual_pe_dir]
reversed_dir(dir) == [i \in 1..3 |-> IF dir[i] # 0 THEN -dir[i] ELSE 0]

\* [line] * num
uniform_scheme(num, dir, t) == [index \in 0..(num - 1) |-> pe_line(dir, t)]

\* First half as given, second half reversed (both the -rpe_all DWI table and
\* the -rpe_pair SE-EPI table).
half_reversed_scheme(num, dir, t) ==
    [index \in 0..(num - 1) |->
        IF index >= num \div 2 THEN pe_line(reversed_dir(dir), t) ELSE pe_line(dir, t)]

ErrNoPeDir == "If not using -rpe_header, phase encoding direction must be provided using the -pe_dir option"

ErrNoHeaderScheme == "No phase encoding information found in DWI image header"

ErrOddVolumes == "If using -rpe_all option, input image must contain an even number of volumes"

ErrUnmatched == "Unable to determine matching reversed phase-encode direction volume for DWI volume"

ErrIncomplete == "Unable to determine complete matching DWI volume pairs for reversed phase-encode combination"

\* The inner loop without the test that index2 is as yet unpaired.
RECURSIVE rpe_all_partner_any(_, _, _, _, _)
rpe_all_partner_any(index1, index2, grads_matched, n, g) ==
    IF index2 >= n THEN n
    ELSE IF grads_match(g[index1], g[index2]) THEN index2
    ELSE rpe_all_partner_any(index1, index2 + 1, grads_matched, n, g)

\* The inner loop of the -rpe_all matching: the first as yet unpaired volume
\* of the second half whose gradient matches that of index1; n when the loop
\* runs to its end (the for-else).
RECURSIVE rpe_all_partner(_, _, _, _, _)
rpe_all_partner(index1, index2, grads_matched, n, g) ==
    IF index2 >= n THEN n
    ELSE IF grads_matched[index2] = n /\ grads_match(g[index1], g[index2]) THEN index2
    ELSE rpe_all_partner(index1, index2 + 1, grads_matched, n, g)

\* The outer loop over the first half; stops at the first volume left without
\* a partner.
RECURSIVE rpe_all_loop(_, _, _, _, _)
rpe_all_loop(index1, grads_matched, pairs, n, g) ==
    IF index1 >= n \div 2 THEN [grad_pairs |-> pairs, unmatched |-> FALSE]
    ELSE IF grads_matched[index1] # n
    THEN rpe_all_loop(index1 + 1, grads_matched, pairs, n, g)
    ELSE LET index2 == rpe_all_partner(index1, n \div 2, grads_matched, n, g)
         IN  IF index2 = n THEN [grad_pairs |-> pairs, unmatched |-> TRUE]
             ELSE rpe_all_loop(index1 + 1,
                               [grads_matched EXCEPT ![index1] = index2,
                                                     ![index2] = index1],
                               Append(pairs, <<index1, index2>>), n, g)

\* The same without the parity test and with the pair count compared to the
\* integer quotient.
rpe_all_check_floor_no_parity(n, g) ==
    LET r == rpe_all_loop(0, [i \in 0..(n - 1) |-> n], <<>>, n, g)
    IN  IF r.unmatched
        THEN [grad_pairs |-> r.grad_pairs,
              error |-> ErrUnmatched]
        ELSE IF Len(r.grad_pairs) # n \div 2
        THEN [grad_pairs |-> r.grad_pairs,
              error |-> ErrIncomplete]
        ELSE [grad_pairs |-> r.grad_pairs, error |-> ""]

\* Lines 495-522: the pairs found and the fatal error raised, "" if none.
rpe_all_check(n, g) ==
    IF n % 2 # 0
    THEN [grad_pairs |-> <<>>,
          error |-> ErrOddVolumes]
    ELSE LET r == rpe_all_loop(0, [i \in 0..(n - 1) |-> n], <<>>, n, g)
         IN  IF r.unmatched
             THEN [grad_pairs |-> r.grad_pairs,
                   error |-> ErrUnmatched]
             ELSE IF 2 * Len(r.grad_pairs) # n
             THEN [grad_pairs |-> r.grad_pairs,
                   error |-> ErrIncomplete]
             ELSE [grad_pairs |-> r.grad_pairs, error |-> ""]

\* What lines 450-540 leave behind for a given design.
manual_schemes(design, dir, t, n, g, se_n) ==
    IF dir # <<>>
    THEN CASE design = "None" ->
                [error |-> "", dwi |-> uniform_scheme(n, dir, t), se_epi |-> <<>>,
                 grad_pairs |-> <<>>]
           [] design = "Pair" ->
                IF se_n % 2 # 0
                THEN [error |-> "If using -rpe_pair option, image provided using -se_epi must contain an even number of volumes",
                      dwi |-> uniform_scheme(n, dir, t), se_epi |-> <<>>,
                      grad_pairs |-> <<>>]
                ELSE [error |-> "", dwi |-> uniform_scheme(n, dir, t),
                      se_epi |-> half_reversed_scheme(se_n, dir, t),
                      grad_pairs |-> <<>>]
           [] design = "All" ->
                LET c == rpe_all_check(n, g)
                IN  IF c.error # ""
                    THEN [error |-> c.error, dwi |-> <<>>, se_epi |-> <<>>,
                          grad_pairs |-> c.grad_pairs]
                    ELSE [error |-> "", dwi |-> half_reversed_scheme(n, dir, t),
                          se_epi |-> <<>>, grad_pairs |-> c.grad_pairs]
           [] OTHER ->
                [error |-> "", dwi |-> <<>>, se_epi |-> <<>>, grad_pairs |-> <<>>]
    ELSE IF design # "Header"
    THEN [error |-> ErrNoPeDir,
          dwi |-> <<>>, se_epi |-> <<>>, grad_pairs |-> <<>>]
    ELSE [error |-> "", dwi |-> <<>>, se_epi |-> <<>>, grad_pairs |-> <<>>]

ManualScheme ==
    /\ pc = "manual"
    /\ manual_pe_dir' = args.pe_dir
    /\ manual_trt' = args.readout_time
    /\ do_topup' = (PE_design # "None")
    /\ trt' = IF args.pe_dir = <<>> THEN trt
              ELSE IF args.readout_time # 0 THEN args.readout_time ELSE auto_trt
    /\ dwi_auto_trt_warning' = (args.pe_dir # <<>> /\ args.readout_time = 0)
    /\ LET m == manual_schemes(PE_design, args.pe_dir, trt', dwi_num_volumes, grad,
                               se_epi_header.num_volumes)
       IN  /\ dwi_manual_pe_scheme' = m.dwi
           /\ se_epi_manual_pe_scheme' = m.se_epi
           /\ grad_pairs' = m.grad_pairs
           /\ errmsg' = m.error
           /\ pc' = IF m.error # "" THEN "error" ELSE "reconcile"
    /\ UNCHANGED <<in_vars, slice_vars, PE_design, import_vars, dwi_pe_scheme,
                   reconcile_vars, seepi_vars, eddy_vars, match_vars, result, warnings, cmds,
                   files, ret,
                   io_vars>>

----------------------------------------------------------------------------
(* Header against command line (lines 543-602).                            *)

\* zip(one, two) runs over the volumes both tables have.
scheme_dirs_match_first_only(one, two) ==
    \A k \in (DOMAIN one \cap DOMAIN two) \cap {0} :
        SubSeq(one[k], 1, 3) = SubSeq(two[k], 1, 3)

scheme_dirs_match(one, two) ==
    \A k \in DOMAIN one \cap DOMAIN two :
        SubSeq(one[k], 1, 3) = SubSeq(two[k], 1, 3)

\* line_one[3] - line_two[3] > 5e-3, the abs() left out
scheme_times_match_noabs(one, two) ==
    \A k \in DOMAIN one \cap DOMAIN two : ~(10 * (one[k][4] - two[k][4]) > 256)

\* abs(line_one[3] - line_two[3]) > 5e-3
scheme_times_match(one, two) ==
    \A k \in DOMAIN one \cap DOMAIN two : ~(10 * Abs(one[k][4] - two[k][4]) > 256)

WarnDirs == "User-defined phase-encoding direction design does not match what is stored in DWI image header; proceeding with user specification"

WarnTimes == "User-defined total readout time does not match what is stored in DWI image header; proceeding with user specification"

\* Lines 559-594 with the header table patched, volume by volume, where it
\* differs instead of replaced as a whole.
reconcile_patched(header_scheme, manual_scheme, dir, mtrt, design) ==
    IF header_scheme # <<>>
    THEN LET dirs_differ == dir # <<>> /\ ~scheme_dirs_match(header_scheme, manual_scheme)
             times_differ == mtrt # 0 /\ ~scheme_times_match(header_scheme, manual_scheme)
             overwrite == dirs_differ \/ times_differ
             patched == [k \in DOMAIN header_scheme |->
                            IF SubSeq(header_scheme[k], 1, 3) = SubSeq(manual_scheme[k], 1, 3)
                            THEN header_scheme[k] ELSE manual_scheme[k]]
         IN  [error |-> "",
              warn |-> (IF dirs_differ THEN {WarnDirs} ELSE {})
                          \cup (IF times_differ THEN {WarnTimes} ELSE {}),
              overwrite |-> overwrite,
              dwi_pe_scheme |-> IF overwrite THEN patched ELSE header_scheme,
              dwi_manual_pe_scheme |-> IF overwrite THEN manual_scheme ELSE <<>>]
    ELSE IF design = "Header"
    THEN [error |-> ErrNoHeaderScheme,
          warn |-> {}, overwrite |-> FALSE, dwi_pe_scheme |-> header_scheme,
          dwi_manual_pe_scheme |-> manual_scheme]
    ELSE [error |-> "", warn |-> {}, overwrite |-> FALSE,
          dwi_pe_scheme |-> manual_scheme, dwi_manual_pe_scheme |-> manual_scheme]

\* Lines 559-594 with the readout times compared whenever -pe_dir is given,
\* the assumed default against the header included.
reconcile_default_time(header_scheme, manual_scheme, dir, mtrt, design) ==
    IF header_scheme # <<>>
    THEN LET dirs_differ == dir # <<>> /\ ~scheme_dirs_match(header_scheme, manual_scheme)
             times_differ == dir # <<>> /\ ~scheme_times_match(header_scheme, manual_scheme)
             overwrite == dirs_differ \/ times_differ
         IN  [error |-> "",
              warn |-> (IF dirs_differ THEN {WarnDirs} ELSE {})
                          \cup (IF times_differ THEN {WarnTimes} ELSE {}),
              overwrite |-> overwrite,
              dwi_pe_scheme |-> IF overwrite THEN manual_scheme ELSE header_scheme,
              dwi_manual_pe_scheme |-> IF overwrite THEN manual_scheme ELSE <<>>]
    ELSE IF design = "Header"
    THEN [error |-> ErrNoHeaderScheme,
          warn |-> {}, overwrite |-> FALSE, dwi_pe_scheme |-> header_scheme,
          dwi_manual_pe_scheme |-> manual_scheme]
    ELSE IF dir = <<>>
    THEN [error |-> "No phase encoding information provided either in header or at command-line",
          warn |-> {}, overwrite |-> FALSE, dwi_pe_scheme |-> header_scheme,
          dwi_manual_pe_scheme |-> manual_scheme]
    ELSE [error |-> "", warn |-> {}, overwrite |-> FALSE,
          dwi_pe_scheme |-> manual_scheme, dwi_manual_pe_scheme |-> manual_scheme]

\* Lines 559-594: the authoritative table and what becomes of the manual one.
reconcile(header_scheme, manual_scheme, dir, mtrt, design) ==
    IF header_scheme # <<>>
    THEN LET dirs_differ == dir # <<>> /\ ~scheme_dirs_match(header_scheme, manual_scheme)
             times_differ == mtrt # 0 /\ ~scheme_times_match(header_scheme, manual_scheme)
             overwrite == dirs_differ \/ times_differ
         IN  [error |-> "",
              warn |-> (IF dirs_differ THEN {WarnDirs} ELSE {})
                          \cup (IF times_differ THEN {WarnTimes} ELSE {}),
              overwrite |-> overwrite,
              dwi_pe_scheme |-> IF overwrite THEN manual_scheme ELSE header_scheme,
              dwi_manual_pe_scheme |-> IF overwrite THEN manual_scheme ELSE <<>>]
    ELSE IF design = "Header"
    THEN [error |-> ErrNoHeaderScheme,
          warn |-> {}, overwrite |-> FALSE, dwi_pe_scheme |-> header_scheme,
          dwi_manual_pe_scheme |-> manual_scheme]
    ELSE IF dir = <<>>
    THEN [error |-> "No phase encoding information provided either in header or at command-line",
          warn |-> {}, overwrite |-> FALSE, dwi_pe_scheme |-> header_scheme,
          dwi_manual_pe_scheme |-> manual_scheme]
    ELSE [error |-> "", warn |-> {}, overwrite |-> FALSE,
          dwi_pe_scheme |-> manual_scheme, dwi_manual_pe_scheme |-> manual_scheme]

Reconcile ==
    /\ pc = "reconcile"
    /\ LET r == reconcile(dwi_pe_scheme, dwi_manual_pe_scheme, manual_pe_dir,
                          manual_trt, PE_design)
       IN  /\ errmsg' = r.error
           /\ warnings' = warnings \cup r.warn
           /\ overwrite_dwi_pe_scheme' = r.overwrite
           /\ dwi_pe_scheme' = r.dwi_pe_scheme
           /\ dwi_manual_pe_scheme' = r.dwi_manual_pe_scheme
           /\ IF r.error = "" /\ r.dwi_manual_pe_scheme # <<>>
              THEN /\ files' = files \cup {<<"dwi_manual_pe_scheme.txt",
                                             r.dwi_manual_pe_scheme>>}
                   /\ tmp' = io_apply(tmp, <<open_w("dwi_manual_pe_scheme.txt")>>)
                   /\ import_dwi_pe_table_option' = " -import_pe_table dwi_manual_pe_scheme.txt"
              ELSE UNCHANGED <<files, tmp, import_dwi_pe_table_option>>
           /\ pc' = IF r.error # "" THEN "error" ELSE "seepi"
    /\ UNCHANGED <<in_vars, slice_vars, PE_design, import_vars, manual_vars,
                   se_epi_manual_pe_scheme, seepi_vars, do_topup, eddy_vars, match_vars, result,
                   cmds, ret, se_epi_path, dwi_path, se_epi_volumes>>

----------------------------------------------------------------------------
(* The images handed to topup (lines 604-894).                             *)

\* b-value at or below which a volume counts as b=0.
bzero_threshold == 10

\* Lines 611-615: index of the first b=0 volume, n when there is none.
RECURSIVE first_bzero(_, _, _)
first_bzero(index, n, g) ==
    IF index >= n THEN n
    ELSE IF g[index][4] <= bzero_threshold THEN index
    ELSE first_bzero(index + 1, n, g)

\* A table indexed from 0 as a sequence, and back.
as_seq(f) == [k \in 1..Cardinality(DOMAIN f) |-> f[k - 1]]

as_table(q) == [k \in 0..(Len(q) - 1) |-> q[k + 1]]

\* 'pe_scheme' in header.keyval(): an image keeps a per-volume table only
\* when its rows are not all the same (comment of lines 846-848).
has_pe_contrast(rows) == Cardinality({rows[k] : k \in DOMAIN rows}) > 1

\* The rows dwiextract -bzero keeps, in order.
bzero_rows(scheme, n, g) ==
    SelectSeq([k \in 1..n |-> <<k - 1, scheme[k - 1]>>],
              LAMBDA e : g[e[1]][4] <= bzero_threshold)

bzero_scheme(scheme, n, g) ==
    LET kept == bzero_rows(scheme, n, g)
    IN  [k \in 1..Len(kept) |-> kept[k][2]]

WarnSeDirs == "User-defined phase-encoding direction design does not match what is stored in SE EPI image header; proceeding with user specification"

WarnSeTimes == "User-defined total readout time does not match what is stored in SE EPI image header; proceeding with user specification"

WarnNoBzero == "Unable to find b=0 volume in input DWIs to provide alignment between topup and eddy; script will proceed as though the -align_seepi option were not provided"

WarnNoContrast == "DWI header indicates no phase encoding contrast between b=0 images; proceeding without inhomogeneity field estimation"

\* Lines 643-721: the SE-EPI table per acquisition design.  bzeros is the table
\* of the DWI b=0 volumes.
se_epi_scheme_for(design, se_scheme, se_manual, dir, mtrt, align, bzeros) ==
    CASE design = "Pair" ->
            IF se_scheme # <<>>
            THEN LET dirs_differ == dir # <<>> /\ ~scheme_dirs_match(se_scheme, se_manual)
                     times_differ == mtrt # 0 /\ ~scheme_times_match(se_scheme, se_manual)
                     overwrite == dirs_differ \/ times_differ
                 IN  [error |-> "",
                      warn |-> (IF dirs_differ THEN {WarnSeDirs} ELSE {})
                                  \cup (IF times_differ THEN {WarnSeTimes} ELSE {}),
                      overwrite |-> overwrite,
                      scheme |-> IF overwrite THEN se_manual ELSE se_scheme,
                      manual |-> IF overwrite THEN se_manual ELSE <<>>,
                      added |-> FALSE, cmds |-> <<>>]
            ELSE [error |-> "", warn |-> {}, overwrite |-> TRUE, scheme |-> se_manual,
                  manual |-> se_manual, added |-> FALSE, cmds |-> <<>>]
      [] design = "All" ->
            [error |-> IF se_scheme = <<>>
                       THEN "If explicitly including SE EPI images when using -rpe_all option, they must come with their own associated phase-encoding information in the image header"
                       ELSE "",
             warn |-> {}, overwrite |-> FALSE, scheme |-> se_scheme,
             manual |-> se_manual, added |-> FALSE, cmds |-> <<>>]
      [] design = "Header" ->
            IF se_scheme = <<>>
            THEN [error |-> "No phase-encoding information present in SE-EPI image header",
                  warn |-> {}, overwrite |-> FALSE, scheme |-> se_scheme,
                  manual |-> se_manual, added |-> FALSE, cmds |-> <<>>]
            ELSE IF has_pe_contrast(se_scheme)
            THEN [error |-> "", warn |-> {}, overwrite |-> FALSE, scheme |-> se_scheme,
                  manual |-> se_manual, added |-> FALSE, cmds |-> <<>>]
            ELSE IF ~align
            THEN [error |-> "No phase-encoding contrast present in SE-EPI images; cannot perform inhomogeneity field estimation",
                  warn |-> {}, overwrite |-> FALSE, scheme |-> se_scheme,
                  manual |-> se_manual, added |-> FALSE, cmds |-> <<>>]
            ELSE IF Len(bzeros) = 0
            THEN [error |-> "dwiextract: no b=0 volumes present",
                  warn |-> {}, overwrite |-> FALSE, scheme |-> se_scheme,
                  manual |-> se_manual, added |-> FALSE, cmds |-> <<"dwiextract|mrcat">>]
            ELSE LET joined == as_table(bzeros \o as_seq(se_scheme))
                 IN  IF has_pe_contrast(joined)
                     THEN [error |-> "", warn |-> {}, overwrite |-> FALSE,
                           scheme |-> joined, manual |-> se_manual, added |-> TRUE,
                           cmds |-> <<"dwiextract|mrcat">>]
                     ELSE [error |-> "No phase-encoding contrast present in SE-EPI images, even after concatenating with b=0 images due to -align_seepi option; cannot perform inhomogeneity field estimation",
                           warn |-> {}, overwrite |-> FALSE, scheme |-> se_scheme,
                           manual |-> se_manual, added |-> FALSE,
                           cmds |-> <<"dwiextract|mrcat">>]
      [] OTHER ->
            [error |-> "", warn |-> {}, overwrite |-> FALSE, scheme |-> se_scheme,
             manual |-> se_manual, added |-> FALSE, cmds |-> <<>>]

\* Lines 775-781: per-axis sum of the SE-EPI directions.
se_epi_pe_sum(se_scheme) ==
    LET q == as_seq(se_scheme)
        Sum[k \in 0..Len(q)] ==
            IF k = 0 THEN <<0, 0, 0>>
            ELSE <<Sum[k - 1][1] + q[k][1], Sum[k - 1][2] + q[k][2],
                   Sum[k - 1][3] + q[k][3]>>
    IN  Sum[Len(q)]

\* Lines 776-781: the first SE-EPI volume with the direction of the first DWI
\* b=0 volume, the number of SE-EPI volumes when there is none.
se_epi_volume_to_remove(se_scheme, bzero_pe) ==
    LET num == Cardinality(DOMAIN se_scheme)
        same == {k \in DOMAIN se_scheme : SubSeq(se_scheme[k], 1, 3) = SubSeq(bzero_pe, 1, 3)}
    IN  IF same = {} THEN num ELSE CHOOSE k \in same : \A j \in same : k <= j

\* Lines 783-822 with the new first line put before the table and no line
\* taken out.
aligned_se_epi_manual_insert_only(se_scheme, se_manual, bzero_pe, dir, t) ==
    IF se_manual = <<>> THEN se_manual
    ELSE as_table(<<pe_line(dir, t)>> \o as_seq(se_manual))

\* Lines 783-822: the manual SE-EPI table after the first DWI b=0 volume has
\* been put at the head of the SE-EPI series.
aligned_se_epi_manual(se_scheme, se_manual, bzero_pe, dir, t) ==
    LET num == Cardinality(DOMAIN se_scheme)
        remove == se_epi_volume_to_remove(se_scheme, bzero_pe)
        first_line == pe_line(dir, t)
    IN  IF se_manual = <<>> THEN se_manual
        ELSE IF se_epi_pe_sum(se_scheme) = <<0, 0, 0>> /\ remove < num
        THEN LET kept == SelectSeq([k \in 1..Cardinality(DOMAIN se_manual) |->
                                       <<k - 1, se_manual[k - 1]>>],
                                   LAMBDA e : e[1] # remove)
             IN  as_table(<<first_line>> \o [k \in 1..Len(kept) |-> kept[k][2]])
        ELSE as_table(<<first_line, se_manual>>)

\* Lines 783-822: the number of volumes of the SE-EPI series after the first
\* DWI b=0 volume has been put at its head, in the place of one of its volumes
\* or before them all.
aligned_se_epi_volumes(se_scheme, bzero_pe, num_volumes) ==
    IF se_epi_pe_sum(se_scheme) = <<0, 0, 0>>
       /\ se_epi_volume_to_remove(se_scheme, bzero_pe) < Cardinality(DOMAIN se_scheme)
    THEN 1 + (num_volumes - 1)
    ELSE 1 + num_volumes

ErrNoSuchFile == "mrcat: cannot open input image (no such file)"

\* Lines 627-637: the SE-EPI series put on the grid of the DWIs.
regrid_events(match) ==
    IF match THEN <<>>
    ELSE <<run_command("mrtransform|mrcalc", {"se_epi.mif", "dwi.mif"}, {"se_epi_regrid.mif"}),
           delTemporary({"se_epi.mif"})>>

\* Lines 701-711: the DWI b=0 volumes put before the SE-EPI series, which the
\* command line names se_epi.mif whatever se_epi_path is.
concat_events(path, kept) ==
    <<run_command("dwiextract|mrcat", {"dwi.mif", "se_epi.mif"}, {path \o "_dwibzeros.mif"})>>
    \o (IF kept THEN <<delTemporary({path \o ".mif"})>> ELSE <<>>)

\* Lines 769-826: the first DWI b=0 volume put at the head of the SE-EPI
\* series.
insert_events(path) ==
    <<run_command("mrconvert", {"dwi.mif"}, {"dwi_first_bzero.mif"}),
      run_command("mrcat", {"dwi_first_bzero.mif", path \o ".mif"},
                  {path \o "_firstdwibzero.mif"}),
      delTemporary({path \o ".mif"}),
      delTemporary({"dwi_first_bzero.mif"})>>

\* The file named by import_dwi_pe_table_option.
import_dwi_pe_table(option) == IF option = "" THEN {} ELSE {"dwi_manual_pe_scheme.txt"}

\* Lines 887-894.
grad_export_events(se_manual) ==
    (IF se_manual # <<>> THEN <<open_w("se_epi_manual_pe_scheme.txt")>> ELSE <<>>)
    \o <<run_command("mrinfo", {"dwi.mif"}, {"grad.b"})>>

PrepareTopupInput ==
    /\ pc = "seepi"
    /\ LET n == dwi_num_volumes
           first == first_bzero(0, n, grad)
           bzeros == bzero_scheme(dwi_pe_scheme, n, grad)
       IN
       /\ dwi_first_bzero_index' = first
       /\ IF args.se_epi
          THEN LET d == se_epi_scheme_for(PE_design, se_epi_header.pe_scheme,
                                          se_epi_manual_pe_scheme, manual_pe_dir,
                                          manual_trt, args.align_seepi, bzeros)
                   regridded == io_apply(tmp, regrid_events(geometry.grids_match))
                   path1 == IF geometry.grids_match THEN "se_epi" ELSE "se_epi_regrid"
                   concat == d.cmds # <<>>
                   error == IF concat /\ "se_epi.mif" \notin regridded.live
                            THEN ErrNoSuchFile ELSE d.error
                   path2 == IF d.added THEN path1 \o "_dwibzeros" ELSE path1
                   insert == error = "" /\ args.align_seepi /\ first # n /\ ~d.added
                   path3 == IF insert THEN path2 \o "_firstdwibzero" ELSE path2
                   bzero_pe == IF overwrite_dwi_pe_scheme
                               THEN dwi_manual_pe_scheme[first]
                               ELSE dwi_pe_scheme[first]
               IN  /\ se_epi_pe_scheme' = d.scheme
                   /\ overwrite_se_epi_pe_scheme' = d.overwrite
                   /\ dwi_bzero_added_to_se_epi' = d.added
                   /\ errmsg' = error
                   /\ warnings' = warnings \cup d.warn
                          \cup (IF error = "" /\ args.align_seepi /\ first = n /\ ~d.added
                                THEN {WarnNoBzero} ELSE {})
                   /\ se_epi_manual_pe_scheme' =
                          IF insert
                          THEN aligned_se_epi_manual(d.scheme, d.manual, bzero_pe,
                                                     manual_pe_dir, trt)
                          ELSE d.manual
                   /\ cmds' = cmds
                          \o (IF geometry.grids_match THEN <<>> ELSE <<"mrtransform|mrcalc">>)
                          \o d.cmds
                          \o (IF insert THEN <<"mrconvert", "mrcat">> ELSE <<>>)
                          \o (IF error = "" THEN <<"mrinfo">> ELSE <<>>)
                   /\ tmp' = io_apply(regridded,
                          (IF concat THEN concat_events(path1, error = "" /\ d.added) ELSE <<>>)
                          \o (IF insert THEN insert_events(path2) ELSE <<>>)
                          \o (IF error = ""
                              THEN grad_export_events(se_epi_manual_pe_scheme') ELSE <<>>))
                   /\ se_epi_path' = path3
                   /\ se_epi_volumes' =
                          IF insert
                          THEN aligned_se_epi_volumes(d.scheme, bzero_pe, se_epi_volumes)
                          ELSE IF d.added THEN Len(bzeros) + se_epi_volumes
                          ELSE se_epi_volumes
                   /\ UNCHANGED do_topup
          ELSE IF PE_design # "None"
          THEN /\ cmds' = cmds \o <<"mrconvert|dwiextract">>
                         \o (IF Len(bzeros) = 0 \/ (~has_pe_contrast(bzeros) /\ PE_design = "All")
                             THEN <<>> ELSE <<"mrinfo">>)
               /\ errmsg' = IF Len(bzeros) = 0
                            THEN "dwiextract: no b=0 volumes present"
                            ELSE IF ~has_pe_contrast(bzeros) /\ PE_design = "All"
                            THEN "DWI header indicates no phase encoding contrast between b=0 images; cannot proceed with volume recombination-based pre-processing"
                            ELSE ""
               /\ do_topup' = IF Len(bzeros) # 0 /\ ~has_pe_contrast(bzeros)
                                 /\ PE_design # "All"
                              THEN FALSE ELSE do_topup
               /\ warnings' = warnings \cup
                     (IF Len(bzeros) # 0 /\ ~has_pe_contrast(bzeros) /\ PE_design # "All"
                      THEN {WarnNoContrast} ELSE {})
               /\ tmp' = io_apply(tmp,
                      <<run_command("mrconvert|dwiextract",
                                    {"dwi.mif"} \cup import_dwi_pe_table(import_dwi_pe_table_option),
                                    IF Len(bzeros) = 0 THEN {} ELSE {"se_epi.mif"})>>
                      \o (IF ~do_topup' /\ do_topup /\ errmsg' = ""
                          THEN <<delTemporary({"se_epi.mif"})>> ELSE <<>>)
                      \o (IF errmsg' = ""
                          THEN grad_export_events(se_epi_manual_pe_scheme) ELSE <<>>))
               /\ se_epi_path' = IF do_topup' THEN "se_epi" ELSE ""
               /\ se_epi_volumes' = IF do_topup' THEN Len(bzeros) ELSE 0
               /\ UNCHANGED <<se_epi_pe_scheme, overwrite_se_epi_pe_scheme,
                              dwi_bzero_added_to_se_epi, se_epi_manual_pe_scheme>>
          ELSE /\ cmds' = Append(cmds, "mrinfo")
               /\ tmp' = io_apply(tmp, grad_export_events(se_epi_manual_pe_scheme))
               /\ se_epi_path' = "se_epi"
               /\ UNCHANGED <<se_epi_volumes, se_epi_pe_scheme, overwrite_se_epi_pe_scheme,
                              dwi_bzero_added_to_se_epi, se_epi_manual_pe_scheme,
                              errmsg, warnings, do_topup>>
    /\ pc' = IF errmsg' # "" THEN "error" ELSE "topup"
    /\ files' = IF errmsg' = "" /\ se_epi_manual_pe_scheme' # <<>>
                THEN files \cup {<<"se_epi_manual_pe_scheme.txt", se_epi_manual_pe_scheme'>>}
                ELSE files
    /\ UNCHANGED <<in_vars, slice_vars, PE_design, import_vars, dwi_pe_scheme, manual_vars,
                   dwi_manual_pe_scheme, reconcile_vars, eddy_vars, match_vars, result,
                   ret, dwi_path>>

----------------------------------------------------------------------------
(* topup, applytopup and the eddy mask (lines 896-1038).                   *)

\* The rows of eddy_config.txt / applytopup_config.txt: one per distinct
\* phase-encoding configuration.
pe_configs(scheme) == {scheme[k] : k \in DOMAIN scheme}

\* q repeated num times.
repeated(q, num) ==
    LET R[k \in 0..num] == IF k = 0 THEN <<>> ELSE R[k - 1] \o q
    IN  R[num]

\* The commands run.command was given by a sequence of events.
commands_of(events) ==
    LET runs == SelectSeq(events, LAMBDA e : e.op = "run" /\ e.cmd # "open")
    IN  [k \in 1..Len(runs) |-> runs[k].cmd]

\* Lines 912-914, 920: path after the first num odd axes have been padded.
padded(path, axes, num) ==
    LET P[k \in 0..num] == IF k = 0 THEN path ELSE P[k - 1] \o "_pad" \o ToString(axes[k])
    IN  P[num]

\* Lines 910-924: each odd axis padded, in the SE-EPI series and in the DWIs.
pad_events(se, dwi, axes) ==
    LET E[k \in 0..Len(axes)] ==
            IF k = 0 THEN <<>>
            ELSE E[k - 1] \o
                 <<run_command("mrconvert|mrcat", {padded(se, axes, k - 1) \o ".mif"},
                               {padded(se, axes, k) \o ".mif"}),
                   delTemporary({padded(se, axes, k - 1) \o ".mif"}),
                   run_command("mrconvert|mrcat", {padded(dwi, axes, k - 1) \o ".mif"},
                               {padded(dwi, axes, k) \o ".mif"}),
                   delTemporary({padded(dwi, axes, k - 1) \o ".mif"})>>
    IN  E[Len(axes)]

\* What topup leaves behind under --out=field --fout=field_map.
topup_out == {"field_fieldcoef.nii.gz", "field_movpar.txt"}

\* Lines 963-1010: applytopup for each phase-encoding configuration.
applytopup_events(dwi, table, num_configs) ==
    LET prefix(c) == dwi \o "_pe_" \o ToString(c)
        E[c \in 0..num_configs] ==
            IF c = 0 THEN <<>>
            ELSE E[c - 1] \o
                 <<run_command("dwiextract|mrconvert", {dwi \o ".mif"} \cup table,
                               {prefix(c) \o ".nii", prefix(c) \o ".json"}),
                   run_command("applytopup",
                               {prefix(c) \o ".nii", "applytopup_config.txt"} \cup topup_out,
                               {prefix(c) \o "_applytopup.nii"}),
                   delTemporary({prefix(c) \o ".nii"}),
                   run_command("mrconvert",
                               {prefix(c) \o "_applytopup.nii", prefix(c) \o ".json"},
                               {prefix(c) \o "_applytopup.mif"}),
                   delTemporary({prefix(c) \o ".json"}),
                   delTemporary({prefix(c) \o "_applytopup.nii"})>>
    IN  E[num_configs]

\* Lines 899-1038.
topup_events(se, dwi, axes, table, se_manual, num_configs) ==
    LET se_in == padded(se, axes, Len(axes))
        dwi_in == padded(dwi, axes, Len(axes))
        corrected == {dwi_in \o "_pe_" \o ToString(c) \o "_applytopup.mif" : c \in 1..num_configs}
    IN  pad_events(se, dwi, axes)
        \o <<run_command("mrconvert",
                         {se_in \o ".mif"}
                            \cup (IF se_manual # <<>> THEN {"se_epi_manual_pe_scheme.txt"} ELSE {}),
                         {"topup_in.nii", "topup_datain.txt"}),
             delTemporary({se_in \o ".mif"}),
             run_command("topup", {"topup_in.nii", "topup_datain.txt"},
                         topup_out \cup {"field_map.nii.gz"}),
             open_w("topup_output.txt"),
             run_command("mrinfo", {dwi_in \o ".mif"} \cup table,
                         {"applytopup_config.txt", "applytopup_indices.txt"})>>
        \o applytopup_events(dwi_in, table, num_configs)
        \o <<run_command("dwi2mask", corrected, {"eddy_mask.nii"}),
             delTemporary(corrected)>>

RunTopup ==
    /\ pc = "topup"
    /\ LET events ==
               IF do_topup
               THEN topup_events(se_epi_path, "dwi", geometry.odd_axes,
                                 import_dwi_pe_table(import_dwi_pe_table_option),
                                 se_epi_manual_pe_scheme,
                                 Cardinality(pe_configs(dwi_pe_scheme)))
               ELSE <<run_command("dwi2mask", {"dwi.mif"}, {"eddy_mask.nii"})>>
       IN  /\ cmds' = cmds \o commands_of(events)
           /\ tmp' = io_apply(tmp, events)
    /\ dwi_path' = IF do_topup
                   THEN padded("dwi", geometry.odd_axes, Len(geometry.odd_axes))
                   ELSE "dwi"
    /\ se_epi_path' = IF do_topup
                      THEN padded(se_epi_path, geometry.odd_axes, Len(geometry.odd_axes))
                      ELSE se_epi_path
    /\ UNCHANGED se_epi_volumes
    /\ LET p == IF do_topup
                THEN pad_slices(eddy_mporder, slice_encoding_direction, geometry.odd_axes,
                                dwi_slices.num_slices, dwi_num_slices, slice_timing,
                                slice_groups)
                ELSE [num |-> dwi_num_slices, timing |-> slice_timing,
                      groups |-> slice_groups]
       IN  /\ dwi_num_slices' = p.num
           /\ slice_timing' = p.timing
           /\ slice_groups' = p.groups
    /\ UNCHANGED <<eddy_manual_options, eddy_mporder, slice_encoding_direction>>
    /\ pc' = "eddy"
    /\ UNCHANGED <<in_vars, PE_design, import_vars, dwi_pe_scheme, manual_vars,
                   dwi_manual_pe_scheme, se_epi_manual_pe_scheme, reconcile_vars,
                   seepi_vars, do_topup, eddy_vars, match_vars, result, warnings, errmsg, files,
                   ret>>

----------------------------------------------------------------------------
(* eddy (lines 1074-1120).                                                 *)

\* Lines 868-876: the volumes picked by dwi_permute_volumes_pre_eddy_option
\* (-coord 3 first,0:first-1,first+1:n-1), in order; <<>> when the option is
\* empty.
dwi_permute_volumes_pre_eddy(first, n) ==
    IF first = 0 THEN <<>>
    ELSE <<first, 0>>
         \o (IF first > 1 THEN [k \in 1..(first - 1) |-> k] ELSE <<>>)
         \o (IF first < n - 1 THEN <<first + 1>> ELSE <<>>)
         \o (IF first < n - 2 THEN [k \in 1..(n - 2 - first) |-> first + 1 + k] ELSE <<>>)

\* Lines 877-881: dwi_permute_volumes_post_eddy_option
\* (-coord 3 1:first,0,first+1:n-1).
dwi_permute_volumes_post_eddy(first, n) ==
    IF first = 0 THEN <<>>
    ELSE <<1>>
         \o (IF first > 1 THEN [k \in 1..(first - 1) |-> 1 + k] ELSE <<>>)
         \o <<0>>
         \o (IF first < n - 1 THEN <<first + 1>> ELSE <<>>)
         \o (IF first < n - 2 THEN [k \in 1..(n - 2 - first) |-> first + 1 + k] ELSE <<>>)

\* mrconvert -coord 3: the volumes of a table in the order asked for; the
\* table as it is without the option.
coord3(table, picks) ==
    IF picks = <<>> THEN table
    ELSE [k \in 0..(Len(picks) - 1) |-> table[picks[k + 1]]]

\* mrconvert refuses a volume index the image does not have.
coord3_valid(picks, n) == \A k \in 1..Len(picks) : picks[k] \in 0..(n - 1)

\* mrconvert -export_pe_eddy: the distinct rows of the table in the order of
\* their first appearance, and for each volume the number (from 1) of its row.
export_pe_eddy_config(scheme) ==
    LET num == Cardinality(DOMAIN scheme)
        C[k \in 0..num] ==
            IF k = 0 THEN <<>>
            ELSE IF \E c \in 1..Len(C[k - 1]) : C[k - 1][c] = scheme[k - 1]
                 THEN C[k - 1]
                 ELSE Append(C[k - 1], scheme[k - 1])
    IN  C[num]

export_pe_eddy_indices(scheme) ==
    LET config == export_pe_eddy_config(scheme)
    IN  [k \in DOMAIN scheme |-> CHOOSE c \in 1..Len(config) : config[c] = scheme[k]]

\* mrconvert -export_grad_fsl: the direction of each volume (image axes taken
\* along the scanner axes).
export_grad_fsl_bvecs(g) == [k \in DOMAIN g |-> SubSeq(g[k], 1, 3)]

\* What a run of eddy may leave behind.  A run that exits with success has
\* written its parameters and its image; the rotated bvecs come with the
\* image if at all.
EddyOutcomes ==
    { o \in [exit_ok : BOOLEAN, parameters : BOOLEAN, image : BOOLEAN, rotated : BOOLEAN] :
        /\ o.exit_ok => o.parameters /\ o.image
        /\ o.rotated => o.image }

\* A binary that is not run leaves nothing.
NotRun == [exit_ok |-> FALSE, parameters |-> FALSE, image |-> FALSE, rotated |-> FALSE]

\* The OpenMP binary is run after this outcome of the CUDA binary (or without
\* a CUDA binary).
openmp_follows(e, cuda) ==
    /\ e.eddy_openmp
    /\ ~(e.eddy_cuda /\ cuda.parameters)

\* The rotated directions eddy reports: a quarter turn about the third axis.
eddy_rotation(table) == [k \in DOMAIN table |-> <<-table[k][2], table[k][1], table[k][3]>>]

WarnCudaFailed == "CUDA version of eddy appears to have failed; trying OpenMP version"

WarnNoRotatedBvecs == "eddy has not provided rotated bvecs file; using original gradient table. Recommend updating FSL eddy to version 5.0.9 or later."

ErrEddyCuda == "eddy_cuda: command failed"

ErrEddyOpenmp == "eddy_openmp: command failed"

ErrNoEddyImage == "Unable to find FSL output image dwi_post_eddy"

\* Lines 1085-1108 with a CUDA run that is never taken to have succeeded
\* when an OpenMP binary exists.
eddy_run_always_retry(e, cuda, openmp) ==
    LET run_cuda == e.eddy_cuda
        cuda_fatal == run_cuda /\ ~cuda.exit_ok /\ ~e.eddy_openmp
        run_openmp == e.eddy_openmp /\ ~cuda_fatal
        openmp_fatal == run_openmp /\ ~openmp.exit_ok
        image == (run_cuda /\ cuda.image) \/ (run_openmp /\ openmp.image)
    IN  [cmds |-> (IF run_cuda THEN <<"eddy_cuda">> ELSE <<>>)
                    \o (IF run_openmp THEN <<"eddy_openmp">> ELSE <<>>),
         warn |-> IF run_cuda /\ ~cuda_fatal /\ ~cuda.parameters
                  THEN {WarnCudaFailed} ELSE {},
         error |-> IF cuda_fatal THEN ErrEddyCuda
                   ELSE IF openmp_fatal THEN ErrEddyOpenmp
                   ELSE IF ~image THEN ErrNoEddyImage
                   ELSE "",
         rotated |-> (run_cuda /\ cuda.rotated) \/ (run_openmp /\ openmp.rotated)]

\* Lines 1085-1108 with dwi_post_eddy.eddy_rotated_bvecs taken to be there
\* whatever the runs left behind.
eddy_run_rotated(e, cuda, openmp) ==
    LET run_cuda == e.eddy_cuda
        cuda_fatal == run_cuda /\ ~cuda.exit_ok /\ ~e.eddy_openmp
        run_openmp == ~cuda_fatal /\ openmp_follows(e, cuda)
        openmp_fatal == run_openmp /\ ~openmp.exit_ok
        image == (run_cuda /\ cuda.image) \/ (run_openmp /\ openmp.image)
    IN  [cmds |-> (IF run_cuda THEN <<"eddy_cuda">> ELSE <<>>)
                    \o (IF run_openmp THEN <<"eddy_openmp">> ELSE <<>>),
         warn |-> IF run_cuda /\ ~cuda_fatal /\ ~cuda.parameters
                  THEN {WarnCudaFailed} ELSE {},
         error |-> IF cuda_fatal THEN ErrEddyCuda
                   ELSE IF openmp_fatal THEN ErrEddyOpenmp
                   ELSE IF ~image THEN ErrNoEddyImage
                   ELSE "",
         rotated |-> TRUE]

\* Lines 1085-1108: the eddy binaries run, given what each run would leave
\* behind.  run.command exits on a failed CUDA run only when there is no
\* OpenMP binary to fall back on.
eddy_run(e, cuda, openmp) ==
    LET run_cuda == e.eddy_cuda
        cuda_fatal == run_cuda /\ ~cuda.exit_ok /\ ~e.eddy_openmp
        run_openmp == ~cuda_fatal /\ openmp_follows(e, cuda)
        openmp_fatal == run_openmp /\ ~openmp.exit_ok
        image == (run_cuda /\ cuda.image) \/ (run_openmp /\ openmp.image)
    IN  [cmds |-> (IF run_cuda THEN <<"eddy_cuda">> ELSE <<>>)
                    \o (IF run_openmp THEN <<"eddy_openmp">> ELSE <<>>),
         warn |-> IF run_cuda /\ ~cuda_fatal /\ ~cuda.parameters
                  THEN {WarnCudaFailed} ELSE {},
         error |-> IF cuda_fatal THEN ErrEddyCuda
                   ELSE IF openmp_fatal THEN ErrEddyOpenmp
                   ELSE IF ~image THEN ErrNoEddyImage
                   ELSE "",
         rotated |-> (run_cuda /\ cuda.rotated) \/ (run_openmp /\ openmp.rotated)]

ErrCoord == "mrconvert: supplied coordinate is out of bounds"

\* Lines 1072-1120: the input of eddy, eddy itself and the choice of the
\* bvecs file.
\* eddy_all_options with --topup=field whether or not topup has run.
eddy_inputs_always_topup(topup) ==
    {"eddy_in.nii", "eddy_mask.nii", "eddy_config.txt", "eddy_indices.txt", "bvecs", "bvals"}
        \cup topup_out

\* The files handed to eddy by eddy_all_options.
eddy_inputs(topup) ==
    {"eddy_in.nii", "eddy_mask.nii", "eddy_config.txt", "eddy_indices.txt", "bvecs", "bvals"}
        \cup (IF topup THEN topup_out ELSE {})

\* The files a run of eddy leaves behind.
eddy_files(o) ==
    (IF o.parameters THEN {"dwi_post_eddy.eddy_parameters"} ELSE {})
        \cup (IF o.image THEN {"dwi_post_eddy.nii.gz"} ELSE {})
        \cup (IF o.rotated THEN {"dwi_post_eddy.eddy_rotated_bvecs"} ELSE {})

\* Lines 1075-1104: eddy's input written, the binaries run, the input deleted.
eddy_events(dwi, table, topup, r, cuda, openmp) ==
    <<run_command("mrconvert", {dwi \o ".mif"} \cup table,
                  {"eddy_in.nii", "bvecs", "bvals", "eddy_config.txt", "eddy_indices.txt"}),
      delTemporary({dwi \o ".mif"})>>
    \o [k \in 1..Len(r.cmds) |->
           run_command(r.cmds[k], eddy_inputs(topup),
                       eddy_files(IF r.cmds[k] = "eddy_cuda" THEN cuda ELSE openmp))]
    \o (IF r.error \in {ErrEddyCuda, ErrEddyOpenmp} THEN <<>>
        ELSE <<delTemporary({"eddy_in.nii"}), delTemporary({"eddy_mask.nii"})>>
             \o (IF topup THEN <<delTemporary({"field_fieldcoef.nii.gz"})>> ELSE <<>>)
             \o <<open_w("eddy_output.txt")>>)

RunEddy ==
    /\ pc = "eddy"
    /\ LET picks == dwi_permute_volumes_pre_eddy(dwi_first_bzero_index, dwi_num_volumes)
           table == import_dwi_pe_table(import_dwi_pe_table_option)
           slspec_events == IF eddy_mporder THEN <<open_w("slspec.txt")>> ELSE <<>>
       IN  IF ~coord3_valid(picks, dwi_num_volumes)
           THEN /\ cmds' = Append(cmds, "mrconvert")
                /\ tmp' = io_apply(tmp, slspec_events
                                        \o <<run_command("mrconvert",
                                                         {dwi_path \o ".mif"} \cup table, {})>>)
                /\ errmsg' = ErrCoord
                /\ pc' = "error"
                /\ UNCHANGED <<eddy_vars, warnings>>
           ELSE /\ eddy_config' = export_pe_eddy_config(coord3(dwi_pe_scheme, picks))
                /\ eddy_indices' = export_pe_eddy_indices(coord3(dwi_pe_scheme, picks))
                /\ bvecs' = export_grad_fsl_bvecs(coord3(grad, picks))
                /\ \E cuda \in (IF env.eddy_cuda THEN EddyOutcomes ELSE {NotRun}) :
                   \E openmp \in (IF openmp_follows(env, cuda) THEN EddyOutcomes ELSE {NotRun}) :
                      LET r == eddy_run(env, cuda, openmp)
                          events == eddy_events(dwi_path, table, do_topup, r, cuda, openmp)
                      IN  /\ cmds' = cmds \o commands_of(events)
                          /\ tmp' = io_apply(tmp, slspec_events \o events)
                          /\ errmsg' = r.error
                          /\ warnings' = warnings \cup r.warn
                                \cup (IF r.error = "" /\ ~r.rotated
                                      THEN {WarnNoRotatedBvecs} ELSE {})
                          /\ pc' = IF r.error # "" THEN "error" ELSE "match"
                          /\ eddy_rotated_bvecs' =
                                IF r.error = "" /\ r.rotated THEN eddy_rotation(bvecs') ELSE <<>>
                          /\ eddy_outputs' = <<cuda, openmp>>
                          /\ bvecs_path' =
                                IF r.error # "" THEN bvecs_path
                                ELSE IF r.rotated THEN "dwi_post_eddy.eddy_rotated_bvecs"
                                ELSE "bvecs"
    /\ LET w == slspec_groups(slice_timing, slice_groups, slice_encoding_direction,
                              dwi_num_slices)
       IN  IF eddy_mporder
           THEN /\ slice_timing' = w.timing
                /\ slice_groups' = w.groups
                /\ files' = files \cup {<<"slspec.txt", w.groups>>}
                /\ eddy_manual_options' =
                      [eddy_manual_options EXCEPT
                          !.slspec = Append(@, [isfile |-> TRUE, groups |-> w.groups])]
           ELSE UNCHANGED <<slice_timing, slice_groups, files, eddy_manual_options>>
    /\ UNCHANGED <<eddy_mporder, slice_encoding_direction, dwi_num_slices>>
    /\ UNCHANGED <<in_vars, PE_design, import_vars, dwi_pe_scheme, manual_vars,
                   dwi_manual_pe_scheme, se_epi_manual_pe_scheme, reconcile_vars,
                   seepi_vars, do_topup, match_vars, result, ret, se_epi_path,
                   dwi_path, se_epi_volumes>>

----------------------------------------------------------------------------
(* Matching of the volumes to recombine (lines 1122-1144).                 *)

\* not any(pe[index1][i] + pe[index2][i] for i in range(0, 3))
pe_opposed_first_axis(a, b) == ~ \E i \in 1..1 : a[i] + b[i] # 0

pe_opposed(a, b) == ~ \E i \in 1..3 : a[i] + b[i] # 0

\* Lines 1132-1136 without the test that index2 is as yet unpaired.
can_pair_any(index1, index2, matchings, n, scheme, g) ==
    /\ pe_opposed(scheme[index1], scheme[index2])
    /\ grads_match(g[index1], g[index2])

\* Lines 1132-1136: index2 is as yet unpaired, has the reversed phase
\* encoding of index1 and the same gradient.
can_pair(index1, index2, matchings, n, scheme, g) ==
    /\ matchings[index2] = n
    /\ pe_opposed(scheme[index1], scheme[index2])
    /\ grads_match(g[index1], g[index2])

\* The inner loop taking the last index2 it can pair with instead of the first.
volume_partner_last(index1, index2, matchings, n, scheme, g) ==
    LET fits == {j \in index2..(n - 1) : can_pair(index1, j, matchings, n, scheme, g)}
    IN  IF fits = {} THEN n ELSE CHOOSE j \in fits : \A l \in fits : l <= j

\* The inner loop: the first index2 > index1 to pair with, n when there is none.
RECURSIVE volume_partner(_, _, _, _, _, _)
volume_partner(index1, index2, matchings, n, scheme, g) ==
    IF index2 >= n THEN n
    ELSE IF can_pair(index1, index2, matchings, n, scheme, g) THEN index2
    ELSE volume_partner(index1, index2 + 1, matchings, n, scheme, g)

\* The outer loop.
RECURSIVE match_volumes(_, _, _, _, _, _)
match_volumes(index1, matchings, pairs, n, scheme, g) ==
    IF index1 >= n THEN [volume_matchings |-> matchings, volume_pairs |-> pairs]
    ELSE IF matchings[index1] # n
    THEN match_volumes(index1 + 1, matchings, pairs, n, scheme, g)
    ELSE LET index2 == volume_partner(index1, index1 + 1, matchings, n, scheme, g)
         IN  IF index2 = n
             THEN match_volumes(index1 + 1, matchings, pairs, n, scheme, g)
             ELSE match_volumes(index1 + 1,
                                [matchings EXCEPT ![index1] = index2,
                                                  ![index2] = index1],
                                Append(pairs, <<index1, index2>>), n, scheme, g)

MatchVolumes ==
    /\ pc = "match"
    /\ LET m == match_volumes(0, [i \in 0..(dwi_num_volumes - 1) |-> dwi_num_volumes],
                              <<>>, dwi_num_volumes, dwi_pe_scheme, grad)
       IN  /\ volume_matchings' = m.volume_matchings
           /\ volume_pairs' = m.volume_pairs
    /\ pc' = "output"
    /\ UNCHANGED <<in_vars, slice_vars, PE_design, import_vars, dwi_pe_scheme, manual_vars,
                   dwi_manual_pe_scheme, se_epi_manual_pe_scheme, reconcile_vars,
                   seepi_vars, do_topup, eddy_vars, result, warnings, errmsg, cmds,
                   files, ret,
                   io_vars>>

----------------------------------------------------------------------------
(* The output image (lines 1146-1333).                                     *)

\* The else branch of line 1146.
recombine(pairs, n) == Len(pairs) = n \div 2

\* The volume order of the image handed to eddy, and of the image eddy
\* returns once the post-eddy option has been applied to it: for each position
\* the input volume found there.
eddy_order(first, n) ==
    coord3([k \in 0..(n - 1) |-> k], dwi_permute_volumes_pre_eddy(first, n))

restored_order(first, n) ==
    coord3(eddy_order(first, n), dwi_permute_volumes_post_eddy(first, n))

\* The table of the file bvecs_path points to.
read_bvecs == IF bvecs_path = "bvecs" THEN bvecs ELSE eddy_rotated_bvecs

\* mrconvert -export_grad_fsl: the file 'bvals'.
export_grad_fsl_bvals(g) == [k \in DOMAIN g |-> g[k][4]]

\* Lines 1148-1156: the eddy output, every volume of it, becomes the result,
\* with the gradient table of bvecs_path and bvals attached before the volumes
\* are put back in their places.
\* fsl.findImage('dwi_post_eddy') and fsl.findImage('field_map') under the
\* default FSLOUTPUTTYPE.
eddy_output_image_path == "dwi_post_eddy.nii.gz"

field_map_image == "field_map.nii.gz"

\* Lines 1148-1156.
uncombined_events(topup, path) ==
    (IF topup THEN <<delTemporary({"topup_in.nii"}), delTemporary({field_map_image})>>
     ELSE <<>>)
    \o <<run_command("mrconvert", {eddy_output_image_path, path, "bvals"}, {"result.mif"}),
         delTemporary({eddy_output_image_path})>>

WriteUncombined ==
    /\ pc = "output"
    /\ ~recombine(volume_pairs, dwi_num_volumes)
    /\ cmds' = cmds \o commands_of(uncombined_events(do_topup, bvecs_path))
    /\ tmp' = io_apply(tmp, uncombined_events(do_topup, bvecs_path))
    /\ LET post == dwi_permute_volumes_post_eddy(dwi_first_bzero_index, dwi_num_volumes)
           pre == dwi_permute_volumes_pre_eddy(dwi_first_bzero_index, dwi_num_volumes)
           order == restored_order(dwi_first_bzero_index, dwi_num_volumes)
       IN  result' = [kind |-> "uncombined",
                      volumes |-> [k \in 1..dwi_num_volumes |-> {order[k - 1]}],
                      bvecs |-> as_seq(coord3(read_bvecs, post)),
                      bvals |-> as_seq(coord3(export_grad_fsl_bvals(coord3(grad, pre)), post)),
                      pe_indices |-> <<>>,
                      weights |-> <<>>,
                      field_gradient |-> <<>>]
    /\ pc' = "finish"
    /\ UNCHANGED <<in_vars, slice_vars, PE_design, import_vars, dwi_pe_scheme, manual_vars,
                   dwi_manual_pe_scheme, se_epi_manual_pe_scheme, reconcile_vars,
                   seepi_vars, do_topup, eddy_vars, match_vars, warnings, errmsg, files,
                   ret, se_epi_path, dwi_path, se_epi_volumes>>

\* Lines 1179-1203: the direction of a combined volume as <<x, y, z, norm2>>,
\* standing for (x, y, z) / sqrt(norm2), and for the zero vector when norm2
\* is 0.
combined_bvec(one, two) ==
    LET bvec_sum == <<one[1] + two[1], one[2] + two[2], one[3] + two[3]>>
        norm2 == bvec_sum[1] * bvec_sum[1] + bvec_sum[2] * bvec_sum[2]
                    + bvec_sum[3] * bvec_sum[3]
        bvec_diff == <<one[1] - two[1], one[2] - two[2], one[3] - two[3]>>
        norm2_diff == bvec_diff[1] * bvec_diff[1] + bvec_diff[2] * bvec_diff[2]
                         + bvec_diff[3] * bvec_diff[3]
        final == IF norm2 < 0 THEN <<bvec_diff, norm2_diff>> ELSE <<bvec_sum, norm2>>
    IN  IF final[2] # 0
        THEN <<final[1][1], final[1][2], final[1][3], final[2]>>
        ELSE <<0, 0, 0, 0>>

\* Lines 1179-1204 over the pairs.
bvecs_combined(pairs, table) ==
    [k \in 1..Len(pairs) |-> combined_bvec(table[pairs[k][1]], table[pairs[k][2]])]

\* The b-value of the first volume of each pair, counted in halves.
bvals_combined_first(pairs, g) == [k \in 1..Len(pairs) |-> 2 * g[pairs[k][1]][4]]

\* Line 1205, 0.5 * (b + b'), counted in halves.
bvals_combined(pairs, g) == [k \in 1..Len(pairs) |-> g[pairs[k][1]][4] + g[pairs[k][2]][4]]

\* 1.0 as a shift in voxels: field (Hz) times readout time (1/5120 s).
One == 5120

\* Line 1263: the first axis with a non-zero component.
pe_axis(config) == CHOOSE i \in 1..3 : config[i] # 0 /\ \A j \in 1..(i - 1) : config[j] = 0

\* The sign of the phase encoding ignored.
sign_multiplier_positive(config) == 1

\* Line 1264.
sign_multiplier(config) == IF config[pe_axis(config)] < 0 THEN -1 ELSE 1

\* Lines 1266-1268: the field map times the readout time and the sign, its
\* gradient (linear in the image, g being the gradient of the field map itself
\* at the voxel) and of that the component along the phase-encoding axis.
field_derivative(config, g) == config[4] * sign_multiplier(config) * g[pe_axis(config)]

\* mrcalc 1.0 deriv -add, the -max left out
jacobian_unclamped(d) == One + d

\* Line 1270: mrcalc 1.0 deriv -add 0.0 -max
jacobian(d) == IF One + d > 0 THEN One + d ELSE 0

\* Line 1273: mrcalc jacobian jacobian -mult
weight(d) == jacobian(d) * jacobian(d)

\* weight1.mif, weight2.mif, ... at a voxel.
weight_images(config, g) == [c \in 1..Len(config) |-> weight(field_derivative(config[c], g))]

\* Gradients of the field map at a voxel, in Hz per voxel.
FieldGradients == { <<gi, gj, 0>> : gi \in {0, 10}, gj \in {-21, -10, 0, 10} }

ErrNoFieldMap == "Unable to find FSL output image field_map"

ErrMrcat == "mrcat: no input images"

\* Lines 1206-1215.
gradient_events == <<open_w("bvecs_combined"), open_w("bvals_combined")>>

\* The weight image of the last phase-encoding configuration left out.
weight_events_but_last(num_configs) ==
    LET E[c \in 0..num_configs] ==
            IF c = 0 THEN <<delTemporary({"topup_in.nii"})>>
            ELSE IF c = num_configs THEN E[c - 1]
            ELSE E[c - 1] \o
                 <<run_command("mrcalc|mrfilter|mrconvert", {field_map_image},
                               {"field_deriv_pe_" \o ToString(c) \o ".mif"}),
                   run_command("mrcalc", {"field_deriv_pe_" \o ToString(c) \o ".mif"},
                               {"jacobian_" \o ToString(c) \o ".mif"}),
                   delTemporary({"field_deriv_pe_" \o ToString(c) \o ".mif"}),
                   run_command("mrcalc", {"jacobian_" \o ToString(c) \o ".mif"},
                               {"weight" \o ToString(c) \o ".mif"}),
                   delTemporary({"jacobian_" \o ToString(c) \o ".mif"})>>
    IN  E[num_configs] \o <<delTemporary({field_map_image})>>

\* Lines 1243-1277: one weight image per phase-encoding configuration.
weight_events(num_configs) ==
    LET E[c \in 0..num_configs] ==
            IF c = 0 THEN <<delTemporary({"topup_in.nii"})>>
            ELSE E[c - 1] \o
                 <<run_command("mrcalc|mrfilter|mrconvert", {field_map_image},
                               {"field_deriv_pe_" \o ToString(c) \o ".mif"}),
                   run_command("mrcalc", {"field_deriv_pe_" \o ToString(c) \o ".mif"},
                               {"jacobian_" \o ToString(c) \o ".mif"}),
                   delTemporary({"field_deriv_pe_" \o ToString(c) \o ".mif"}),
                   run_command("mrcalc", {"jacobian_" \o ToString(c) \o ".mif"},
                               {"weight" \o ToString(c) \o ".mif"}),
                   delTemporary({"jacobian_" \o ToString(c) \o ".mif"})>>
    IN  E[num_configs] \o <<delTemporary({field_map_image})>>

\* Lines 1282-1300: eddy's output uncompressed and, when the volumes were
\* permuted for eddy, its volumes put back in their places.
restored_path(permuted) ==
    IF permuted THEN "dwi_post_eddy_uncompressed_volpermuteundo.mif"
    ELSE "dwi_post_eddy_uncompressed.mif"

restore_events(permuted) ==
    <<run_command("mrconvert", {eddy_output_image_path}, {"dwi_post_eddy_uncompressed.mif"}),
      delTemporary({eddy_output_image_path})>>
    \o (IF permuted
        THEN <<run_command("mrconvert", {"dwi_post_eddy_uncompressed.mif"},
                           {restored_path(TRUE)}),
               delTemporary({"dwi_post_eddy_uncompressed.mif"})>>
        ELSE <<>>)

\* Lines 1305-1333: the pairs combined and put together.
combine_events(image, indices, num_configs) ==
    LET combined == {"combined" \o ToString(k - 1) \o ".mif" : k \in 1..Len(indices)}
        E[k \in 0..Len(indices)] ==
            IF k = 0 THEN <<>>
            ELSE E[k - 1] \o
                 <<run_command("mrconvert", {image}, {"volume0.mif"}),
                   run_command("mrconvert", {image}, {"volume1.mif"}),
                   run_command("mrcalc",
                               {"volume0.mif", "volume1.mif",
                                "weight" \o ToString(indices[k][1]) \o ".mif",
                                "weight" \o ToString(indices[k][2]) \o ".mif"},
                               {"combined" \o ToString(k - 1) \o ".mif"}),
                   delTemporary({"volume0.mif"}),
                   delTemporary({"volume1.mif"})>>
    IN  E[Len(indices)]
        \o <<delTemporary({image}),
             delTemporary({"weight" \o ToString(c) \o ".mif" : c \in 1..num_configs}),
             run_command("mrcat|mrconvert", combined \cup {"bvecs_combined", "bvals_combined"},
                         IF Len(indices) = 0 THEN {} ELSE {"result.mif"})>>
        \o (IF Len(indices) = 0 THEN <<>> ELSE <<delTemporary(combined)>>)

\* Lines 1159-1333: one output volume per pair.  The field map exists only
\* when topup has run, and mrcat needs at least one combined volume.  A
\* combined volume is (v0 * w0 + v1 * w1) / (w0 + w1) clipped at 0; the result
\* keeps for each pair the volumes v0, v1, their weight images' numbers and the
\* weights w0, w1 at the voxel, and the gradient of the field map there.
WriteRecombined ==
    /\ pc = "output"
    /\ recombine(volume_pairs, dwi_num_volumes)
    /\ files' = files \cup {<<"bvecs_combined", bvecs_combined(volume_pairs, read_bvecs)>>,
                            <<"bvals_combined", bvals_combined(volume_pairs, grad)>>}
    /\ LET num_configs == Len(eddy_config)
           order == restored_order(dwi_first_bzero_index, dwi_num_volumes)
           pe_indices == [k \in 1..Len(volume_pairs) |->
                             <<eddy_indices[volume_pairs[k][1]],
                               eddy_indices[volume_pairs[k][2]]>>]
           events == IF ~do_topup THEN gradient_events
                     ELSE gradient_events
                          \o weight_events(num_configs)
                          \o restore_events(dwi_first_bzero_index # 0)
                          \o combine_events(restored_path(dwi_first_bzero_index # 0),
                                            pe_indices, num_configs)
       IN
       /\ cmds' = cmds \o commands_of(events)
       /\ tmp' = io_apply(tmp, events)
       /\ IF ~do_topup
          THEN /\ errmsg' = ErrNoFieldMap
               /\ pc' = "error"
               /\ UNCHANGED result
          ELSE IF Len(volume_pairs) = 0
          THEN /\ errmsg' = ErrMrcat
               /\ pc' = "error"
               /\ UNCHANGED result
          ELSE \E g \in FieldGradients :
               LET w == weight_images(eddy_config, g)
               IN  /\ result' = [kind |-> "recombined",
                                 volumes |-> [k \in 1..Len(volume_pairs) |->
                                                 {order[volume_pairs[k][1]],
                                                  order[volume_pairs[k][2]]}],
                                 bvecs |-> bvecs_combined(volume_pairs, read_bvecs),
                                 bvals |-> bvals_combined(volume_pairs, grad),
                                 pe_indices |-> pe_indices,
                                 weights |-> [k \in 1..Len(volume_pairs) |->
                                                 <<w[pe_indices[k][1]], w[pe_indices[k][2]]>>],
                                 field_gradient |-> g]
                   /\ pc' = "finish"
                   /\ UNCHANGED errmsg
    /\ UNCHANGED <<in_vars, slice_vars, PE_design, import_vars, dwi_pe_scheme, manual_vars,
                   dwi_manual_pe_scheme, se_epi_manual_pe_scheme, reconcile_vars,
                   seepi_vars, do_topup, eddy_vars, match_vars, warnings, ret, se_epi_path,
                   dwi_path, se_epi_volumes>>

\* Line 1358.
Finish ==
    /\ pc = "finish"
    /\ cmds' = Append(cmds, "mrconvert")
    /\ tmp' = io_apply(tmp, <<run_command("mrconvert", {"result.mif"}, {})>>)
    /\ pc' = "done"
    /\ UNCHANGED <<in_vars, slice_vars, PE_design, import_vars, dwi_pe_scheme, manual_vars,
                   dwi_manual_pe_scheme, se_epi_manual_pe_scheme, reconcile_vars,
                   seepi_vars, do_topup, eddy_vars, match_vars, result, warnings, errmsg, files,
                   ret, se_epi_path, dwi_path, se_epi_volumes>>

----------------------------------------------------------------------------
(* A run of the script.                                                    *)

ArgsOf(flags, dir, t, se, al) ==
    [rpe_none |-> "rpe_none" \in flags, rpe_pair |-> "rpe_pair" \in flags,
     rpe_all |-> "rpe_all" \in flags, rpe_header |-> "rpe_header" \in flags,
     pe_dir |-> dir, readout_time |-> t, se_epi |-> se, align_seepi |-> al]

\* Command lines: one design flag each, and two that the parser refuses.
RunArgs ==
    { ArgsOf({f}, dir, t, se, al) :
        f \in RpeFlags, dir \in {<<>>, <<0, 1, 0>>}, t \in {0, 250},
        se \in BOOLEAN, al \in BOOLEAN }
    \cup { ArgsOf({}, <<0, 1, 0>>, 0, FALSE, FALSE),
           ArgsOf({"rpe_all", "rpe_header"}, <<>>, 0, FALSE, FALSE) }

RunGradRows == { <<0, 0, 0, 0>>, <<2, 0, 0, 1000>> }

RunPeRows == { <<0, 1, 0, 250>>, <<0, -1, 0, 250>> }

DwiHeaders(G, P) ==
    UNION { { [num_volumes |-> n, dw_scheme |-> g, pe_scheme |-> p] :
                g \in [0..(n - 1) -> G], p \in {<<>>} \cup [0..(n - 1) -> P] } :
            n \in 1..MaxVols }

\* SE-EPI series: a reversed pair, two volumes alike, and one without
\* phase-encoding information.
SeEpiHeaders ==
    { [num_volumes |-> 2, dw_scheme |-> <<>>, pe_scheme |-> p] :
        p \in { <<>>, as_table(<< <<0, 1, 0, 250>>, <<0, -1, 0, 250>> >>),
                as_table(<< <<0, 1, 0, 250>>, <<0, 1, 0, 250>> >>) } }

\* Headers without slice keys, of an even and of an odd number of slices.
PlainSlices ==
    { [num_slices |-> num, SliceEncodingDirection |-> "", SliceTiming |-> <<>>] :
        num \in {2, 3} }

InitRunSlices(A, H, E, G, S, O, SL) ==
    /\ pc = "parse"
    /\ args \in A
    /\ env \in E
    /\ geometry \in G
    /\ eddy_manual_options \in O
    /\ dwi_slices \in { s \in SL : (s.num_slices % 2 = 1)
                                      <=> \E k \in 1..Len(geometry.odd_axes) :
                                             geometry.odd_axes[k] = 2 }
    /\ dwi_header \in H
    /\ se_epi_header \in (IF args.se_epi THEN S ELSE {NoHeader})
    /\ dwi_num_volumes = 0
    /\ grad = <<>>
    /\ dwi_pe_scheme = <<>>
    /\ Unset

InitRunWith(A, H, E, G, S) == InitRunSlices(A, H, E, G, S, {NoEddyOptions}, PlainSlices)

InitRunOn(A, H, E, G) == InitRunWith(A, H, E, G, SeEpiHeaders)

InitRunEnv(A, H, E) == InitRunOn(A, H, E, {PlainGeometry})

InitRun(A, H) == InitRunEnv(A, H, {GoodEnv})

\* Input series that the import refuses: no gradient table, and a table
\* that is one line short.
BadDwiHeaders ==
    { [num_volumes |-> 2, dw_scheme |-> <<>>, pe_scheme |-> <<>>],
      [num_volumes |-> 2, dw_scheme |-> as_table(<< <<0, 0, 0, 0>> >>), pe_scheme |-> <<>>] }

Init == InitRun(RunArgs, DwiHeaders(RunGradRows, RunPeRows) \cup BadDwiHeaders)

Next ==
    \/ ParseArgs
    \/ ImportImages
    \/ ManualScheme
    \/ Reconcile
    \/ PrepareTopupInput
    \/ RunTopup
    \/ RunEddy
    \/ MatchVolumes
    \/ WriteUncombined
    \/ WriteRecombined
    \/ Finish

Spec == Init /\ [][Next]_vars

\* Runs whose header and command line disagree, or nearly agree, on the
\* phase encoding of the series.
ReconcileArgs ==
    { ArgsOf({f}, dir, t, f = "rpe_pair", FALSE) :
        f \in RpeFlags, dir \in {<<>>, <<0, 1, 0>>, <<1, 0, 0>>}, t \in {0, 250} }

ReconcilePeRows ==
    { <<0, 1, 0, 250>>, <<0, -1, 0, 250>>, <<0, 1, 0, 275>>, <<0, 1, 0, 220>>, <<1, 0, 0, 250>> }

InitReconcile == InitRun(ReconcileArgs, DwiHeaders({<<0, 0, 0, 0>>}, ReconcilePeRows))

SpecReconcile == InitReconcile /\ [][Next]_vars

\* Runs on the header alone, over series whose volumes differ in gradient
\* direction, b-value and phase encoding.
MatchingArgs == { ArgsOf({"rpe_header"}, <<>>, 0, FALSE, FALSE) }

MatchingGradRows == { <<0, 0, 0, 0>>, <<2, 0, 0, 1000>>, <<-2, 0, 0, 1010>> }

MatchingPeRows == { <<0, 1, 0, 250>>, <<0, -1, 0, 250>>, <<1, 0, 0, 250>> }

InitMatching == InitRun(MatchingArgs, DwiHeaders(MatchingGradRows, MatchingPeRows))

SpecMatching == InitMatching /\ [][Next]_vars

\* Runs in every environment: FSLDIR set or not, the topup configuration file
\* found or not, each of the two eddy binaries found or not.
Environments ==
    [FSLDIR : BOOLEAN, topup_config : BOOLEAN, eddy_cuda : BOOLEAN, eddy_openmp : BOOLEAN]

ToolsVols == 2

ToolsHeaders == { h \in DwiHeaders(RunGradRows, RunPeRows) : h.num_volumes <= ToolsVols }

InitTools == InitRunEnv(RunArgs, ToolsHeaders, Environments)

SpecTools == InitTools /\ [][Next]_vars

\* Runs over image grids: axes of odd size to be padded for topup, and an
\* SE-EPI series that is or is not on the grid of the DWIs.
Geometries ==
    [odd_axes : {<<>>, <<0>>, <<0, 2>>}, grids_match : BOOLEAN]

FilesArgs ==
    { ArgsOf({f}, dir, 0, se, al) :
        f \in RpeFlags, dir \in {<<>>, <<0, 1, 0>>}, se \in BOOLEAN, al \in BOOLEAN }

FilesVols == 2

FilesHeaders == { h \in DwiHeaders(RunGradRows, RunPeRows) : h.num_volumes <= FilesVols }

InitFiles == InitRunOn(FilesArgs, FilesHeaders, {GoodEnv}, Geometries)

SpecFiles == InitFiles /\ [][Next]_vars

\* Runs of the -rpe_pair design over SE-EPI series of two to four volumes,
\* with or without a phase-encoding table of their own.
PairArgs ==
    { ArgsOf({"rpe_pair"}, <<0, 1, 0>>, t, TRUE, al) : t \in {0, 250}, al \in BOOLEAN }

PairVols == 2

PairSeEpiTables ==
    { << <<0, 1, 0, 250>>, <<0, -1, 0, 250>> >>,
      << <<0, -1, 0, 250>>, <<0, 1, 0, 250>> >>,
      << <<0, 1, 0, 275>>, <<0, -1, 0, 275>> >>,
      << <<0, 1, 0, 250>>, <<0, 1, 0, 250>>, <<0, -1, 0, 250>>, <<0, -1, 0, 250>> >>,
      << <<0, 1, 0, 250>>, <<0, -1, 0, 250>>, <<0, 1, 0, 250>>, <<0, -1, 0, 250>> >> }

PairSeEpiHeaders ==
    { [num_volumes |-> Len(q), dw_scheme |-> <<>>, pe_scheme |-> as_table(q)] :
        q \in PairSeEpiTables }
    \cup { [num_volumes |-> num, dw_scheme |-> <<>>, pe_scheme |-> <<>>] : num \in 2..4 }

InitPair ==
    InitRunWith(PairArgs,
                { h \in DwiHeaders(RunGradRows, RunPeRows) : h.num_volumes <= PairVols },
                {GoodEnv}, {PlainGeometry}, PairSeEpiHeaders)

SpecPair == InitPair /\ [][Next]_vars

\* Runs with --mporder among the -eddy_options: slice keys of the header,
\* slspec files of the user, and a slice axis of even or of odd size.
SliceVols == 2

SliceTimings(num) == [1..num -> {0, 5}]

\* What a slspec file of the user may hold: a partition of the slices.
SlspecFiles(num) ==
    { [isfile |-> TRUE, groups |-> groups_by_time(t, {t[k] : k \in 1..num})] :
        t \in SliceTimings(num) }

SliceHeaderKeys ==
    UNION { { [num_slices |-> num, SliceEncodingDirection |-> d, SliceTiming |-> t] :
                d \in {"", "k", "k-", "j"},
                t \in {<<>>, <<0>>} \cup SliceTimings(num) } :
            num \in {2, 3} }

InitSlices ==
    /\ LET missing == [isfile |-> FALSE, groups |-> <<>>]
       IN  InitRunSlices({ ArgsOf({"rpe_header"}, <<>>, 0, FALSE, FALSE),
                           ArgsOf({"rpe_none"}, <<0, 1, 0>>, 0, FALSE, FALSE) },
                         { h \in DwiHeaders(RunGradRows, RunPeRows) :
                             h.num_volumes = SliceVols },
                         {GoodEnv},
                         { [odd_axes |-> a, grids_match |-> TRUE] : a \in {<<>>, <<0, 2>>} },
                         SeEpiHeaders,
                         {NoEddyOptions}
                         \cup { [mporder |-> TRUE, slspec |-> q] :
                                  q \in {<<>>, <<missing>>, <<missing, missing>>}
                                        \cup UNION { { <<f>> : f \in SlspecFiles(num) } :
                                                      num \in {2, 3} } },
                         SliceHeaderKeys)
    /\ \A k \in 1..Len(eddy_manual_options.slspec) :
          eddy_manual_options.slspec[k].isfile =>
              slices_of(eddy_manual_options.slspec[k].groups) = 0..(dwi_slices.num_slices - 1)

SpecSlices == InitSlices /\ [][Next]_vars

----------------------------------------------------------------------------
(* grads_match as a function of two gradient-table rows.                   *)

GradDirections ==
    { <<0, 0, 0>>, <<2, 0, 0>>, <<-2, 0, 0>>, <<0, 2, 0>>, <<0, 0, -2>>,
      <<1, 0, 0>>, <<2, 2, 0>>, <<2, 0, 1>> }

GradBValues == {0, 5, 1000, 1010, 1011}

GradRows == { <<d[1], d[2], d[3], b>> : d \in GradDirections, b \in GradBValues }

InitGradsMatch ==
    /\ pc = "grads_match"
    /\ args = NoArgs
    /\ env = GoodEnv
    /\ dwi_header = NoHeader
    /\ se_epi_header = NoHeader
    /\ geometry = PlainGeometry
    /\ eddy_manual_options = NoEddyOptions
    /\ dwi_slices \in { s \in PlainSlices : s.num_slices % 2 = 0 }
    /\ dwi_num_volumes = 2
    /\ grad \in [0..1 -> GradRows]
    /\ dwi_pe_scheme = <<>>
    /\ Unset

CallGradsMatch ==
    /\ pc = "grads_match"
    /\ ret' = grads_match(grad[0], grad[1])
    /\ pc' = "returned"
    /\ UNCHANGED <<in_vars, slice_vars, PE_design, import_vars, dwi_pe_scheme, manual_vars,
                   dwi_manual_pe_scheme, se_epi_manual_pe_scheme, reconcile_vars,
                   seepi_vars, do_topup, eddy_vars, match_vars, result, warnings, errmsg, cmds,
                   files,
                   io_vars>>

NextGradsMatch == CallGradsMatch

SpecGradsMatch == InitGradsMatch /\ [][NextGradsMatch]_vars

----------------------------------------------------------------------------
(* Properties of grads_match (under SpecGradsMatch).                       *)

bvalue_gap == Abs(grad[0][4] - grad[1][4])

\* The row with its b-value replaced.
with_bvalue(row, b) == <<row[1], row[2], row[3], b>>

dir_norm2(row) == dot_product(row, row)

\* |cos| of the angle between the two directions is at least 0.999:
\* dot^2 >= 0.999^2 * |one|^2 * |two|^2.
within_angle(one, two) ==
    1000000 * dot_product(one, two) * dot_product(one, two)
        >= 998001 * dir_norm2(one) * dir_norm2(two)

\* C3: two rows whose b-values differ by more than 10 never match, whatever
\* their directions (in either order of the arguments); a difference of up
\* to and including 10 leaves the verdict what it is for equal b-values.
C3_BValueTolerance ==
    pc = "returned" =>
        /\ bvalue_gap > 10 => ~ret /\ ~grads_match(grad[1], grad[0])
        /\ bvalue_gap <= 10 =>
              ret = grads_match(with_bvalue(grad[0], 1000), with_bvalue(grad[1], 1000))

\* Same unit direction, b-values 11 apart: no match.
C3_Witness ==
    /\ pc = "returned"
    /\ bvalue_gap = 11
    /\ dir_norm2(grad[0]) = 4
    /\ SubSeq(grad[0], 1, 3) = SubSeq(grad[1], 1, 3)
    /\ ~ret

\* C4: when exactly one of the two direction vectors is all zero the rows
\* do not match, in either order, whatever the b-values; two all-zero
\* vectors match exactly when the b-values differ by at most 10.
C4_ZeroVectors ==
    pc = "returned" =>
        /\ any_direction(grad[0]) # any_direction(grad[1]) =>
              ~ret /\ ~grads_match(grad[1], grad[0])
        /\ ~any_direction(grad[0]) /\ ~any_direction(grad[1]) =>
              (ret <=> bvalue_gap <= 10)

\* A zero vector first, a non-zero one second, b-values within tolerance.
C4_Witness ==
    /\ pc = "returned"
    /\ ~any_direction(grad[0])
    /\ any_direction(grad[1])
    /\ bvalue_gap <= 10
    /\ ~ret

\* C5: for two non-zero vectors with b-values within 10, the rows match
\* exactly when the absolute dot product of the normalised vectors is at
\* least 0.999, so that the verdict depends on the angle alone.
C5_NormalisedDot ==
    pc = "returned" /\ any_direction(grad[0]) /\ any_direction(grad[1])
                    /\ bvalue_gap <= 10 =>
        (ret <=> within_angle(grad[0], grad[1]))

----------------------------------------------------------------------------
(* Properties of the volume matching after eddy (under SpecMatching).      *)

\* The matching loop has run.
matching_done == volume_matchings # <<>>

Volumes == 0..(dwi_num_volumes - 1)

pairs_of(index) ==
    {k \in 1..Len(volume_pairs) : index \in {volume_pairs[k][1], volume_pairs[k][2]}}

\* C1: once the matching loop has finished, every volume index is in at most
\* one entry of volume_pairs, volume_matchings is symmetric and agrees with
\* volume_pairs, and an index in no pair keeps the sentinel n.
C1_PairsDisjoint ==
    matching_done =>
        /\ \A i \in Volumes : Cardinality(pairs_of(i)) <= 1
        /\ \A k \in 1..Len(volume_pairs) :
              /\ volume_pairs[k][1] \in Volumes
              /\ volume_pairs[k][2] \in Volumes
              /\ volume_pairs[k][1] # volume_pairs[k][2]
              /\ volume_matchings[volume_pairs[k][1]] = volume_pairs[k][2]
        /\ \A i \in Volumes :
              volume_matchings[i] # dwi_num_volumes =>
                  /\ volume_matchings[i] \in Volumes
                  /\ volume_matchings[volume_matchings[i]] = i
        /\ \A i \in Volumes :
              pairs_of(i) = {} <=> volume_matchings[i] = dwi_num_volumes

\* A volume left alone although a volume already paired has the reversed
\* phase encoding and a matching gradient.
C1_Witness ==
    /\ matching_done
    /\ \E i, j \in Volumes :
          /\ volume_matchings[i] = dwi_num_volumes
          /\ volume_matchings[j] # dwi_num_volumes
          /\ pe_opposed(dwi_pe_scheme[i], dwi_pe_scheme[j])
          /\ grads_match(grad[i], grad[j])

\* C2: the two volumes of every pair have phase-encoding directions that sum
\* to zero on each of the three axes and gradients that match; no pair joins
\* two volumes of the same non-zero phase-encoding direction.
C2_PairsOpposed ==
    matching_done =>
        \A k \in 1..Len(volume_pairs) :
            LET one == volume_pairs[k][1]
                two == volume_pairs[k][2]
            IN  /\ \A axis \in 1..3 :
                      dwi_pe_scheme[one][axis] + dwi_pe_scheme[two][axis] = 0
                /\ grads_match(grad[one], grad[two])
                /\ ~ /\ any_direction(dwi_pe_scheme[one])
                     /\ SubSeq(dwi_pe_scheme[one], 1, 3) = SubSeq(dwi_pe_scheme[two], 1, 3)

\* A pair was formed while two volumes of equal phase encoding and matching
\* gradients were left unpaired with each other.
C2_Witness ==
    /\ matching_done
    /\ Len(volume_pairs) >= 1
    /\ \E i, j \in Volumes :
          /\ i < j
          /\ SubSeq(dwi_pe_scheme[i], 1, 3) = SubSeq(dwi_pe_scheme[j], 1, 3)
          /\ grads_match(grad[i], grad[j])
          /\ volume_matchings[i] # j

----------------------------------------------------------------------------
(* Properties of the -rpe_all design (under Spec).                         *)

no_topup_or_eddy(q) ==
    \A k \in 1..Len(q) : q[k] \notin {"topup", "applytopup", "eddy_cuda", "eddy_openmp"}

\* C6: with -rpe_all and an odd number of DWI volumes the run never gets
\* past the construction of the manual phase-encoding table: it is stopped
\* by a fatal error, never invokes topup or eddy and writes no output image.
C6_OddVolumesFatal ==
    args.rpe_all /\ dwi_header.num_volumes % 2 = 1 =>
        /\ pc \in {"parse", "import", "manual", "error"}
        /\ no_topup_or_eddy(cmds)
        /\ result = NoResult
        /\ pc = "error" /\ manual_pe_dir # <<>> => errmsg = ErrOddVolumes

\* Three volumes, the first of which has a match in the second half.
C6_Witness ==
    /\ pc = "error"
    /\ args.rpe_all
    /\ dwi_num_volumes = 3
    /\ errmsg = ErrOddVolumes
    /\ grads_match(grad[0], grad[1])

second_half == (dwi_num_volumes \div 2)..(dwi_num_volumes - 1)

\* Each pair joins the next volume of the first half to a volume of the
\* second half that matches it and is in no earlier pair.
rpe_all_pairs_valid(pairs) ==
    \A k \in 1..Len(pairs) :
        /\ pairs[k][1] = k - 1
        /\ pairs[k][1] < dwi_num_volumes \div 2
        /\ pairs[k][2] \in second_half
        /\ grads_match(grad[pairs[k][1]], grad[pairs[k][2]])
        /\ \A l \in 1..(k - 1) : pairs[l][2] # pairs[k][2]

\* The first-half volume after those paired has no as yet unpaired match in
\* the second half.
rpe_all_stuck(pairs) ==
    /\ Len(pairs) < dwi_num_volumes \div 2
    /\ \A j \in second_half :
          \/ \E k \in 1..Len(pairs) : pairs[k][2] = j
          \/ ~grads_match(grad[Len(pairs)], grad[j])

\* C7: under -rpe_all (with -pe_dir given), when a volume of the first half
\* finds no as yet unpaired volume of the second half with a matching
\* gradient the run stops with a fatal error, before any phase-encoding
\* table is written and before topup or eddy; the run goes on only with
\* exactly n/2 pairs, each of a first-half and a second-half volume.
C7_RpeAllPairing ==
    [][pc = "manual" /\ PE_design = "All" /\ args.pe_dir # <<>> =>
          /\ rpe_all_pairs_valid(grad_pairs')
          /\ pc' \in {"reconcile", "error"}
          /\ pc' = "reconcile" =>
                /\ 2 * Len(grad_pairs') = dwi_num_volumes
                /\ dwi_manual_pe_scheme' # <<>>
          /\ dwi_num_volumes % 2 = 0 /\ rpe_all_stuck(grad_pairs') =>
                pc' = "error" /\ errmsg' = ErrUnmatched
          /\ dwi_num_volumes % 2 = 0 /\ ~rpe_all_stuck(grad_pairs') =>
                pc' = "reconcile"
          /\ pc' = "error" =>
                /\ files' = {}
                /\ dwi_manual_pe_scheme' = <<>>
                /\ no_topup_or_eddy(cmds')
                /\ result' = NoResult]_vars

\* Four volumes: the first is paired, and the only match of the second is
\* the volume the first was paired with.
C7_Witness ==
    /\ pc = "error"
    /\ errmsg = ErrUnmatched
    /\ dwi_num_volumes = 4
    /\ Len(grad_pairs) = 1
    /\ grads_match(grad[1], grad[grad_pairs[1][2]])

\* C8: recombination happens only when every input volume is in a pair;
\* with fewer pairs than half the number of volumes, an odd number of
\* volumes included, the output is the non-recombined series with all n
\* volumes, so that no volume is dropped.
C8_NoVolumeDropped ==
    /\ result.kind = "recombined" =>
          \A i \in Volumes : \E k \in 1..Len(result.volumes) : i \in result.volumes[k]
    /\ pc = "done" /\ 2 * Len(volume_pairs) < dwi_num_volumes =>
          /\ result.kind = "uncombined"
          /\ Len(result.volumes) = dwi_num_volumes

----------------------------------------------------------------------------
(* Properties of the header against the command line (under SpecReconcile). *)

directions_differ(one, two) ==
    \E k \in Volumes : \E axis \in 1..3 : one[k][axis] # two[k][axis]

\* Some volume's readout times are more than 5e-3 s apart.
times_differ(one, two) ==
    \E k \in Volumes : 10 * Abs(one[k][4] - two[k][4]) > 256

header_and_pe_dir == pc = "reconcile" /\ dwi_pe_scheme # <<>> /\ manual_pe_dir # <<>>

header_kept ==
    /\ dwi_pe_scheme' = dwi_pe_scheme
    /\ dwi_manual_pe_scheme' = <<>>
    /\ ~overwrite_dwi_pe_scheme'
    /\ files' = files
    /\ import_dwi_pe_table_option' = ""

manual_adopted ==
    /\ dwi_pe_scheme' = dwi_manual_pe_scheme
    /\ dwi_manual_pe_scheme' = dwi_manual_pe_scheme
    /\ overwrite_dwi_pe_scheme'
    /\ <<"dwi_manual_pe_scheme.txt", dwi_manual_pe_scheme>> \in files'
    /\ import_dwi_pe_table_option' = " -import_pe_table dwi_manual_pe_scheme.txt"

\* C9: with a phase-encoding table in the DWI header and -pe_dir given, a
\* command-line table whose direction differs from the header's in at least
\* one volume brings a warning and replaces the header table, the run goes
\* on and the manual table is the one passed on with -import_pe_table; when
\* the directions agree in every volume and no readout time is given the
\* header table is kept, without warning, and the manual table discarded.
C9_DirectionsReconciled ==
    [][header_and_pe_dir =>
          /\ pc' = "seepi"
          /\ directions_differ(dwi_pe_scheme, dwi_manual_pe_scheme) =>
                WarnDirs \in warnings' /\ manual_adopted
          /\ ~directions_differ(dwi_pe_scheme, dwi_manual_pe_scheme) /\ manual_trt = 0 =>
                warnings' = warnings /\ header_kept]_vars

\* The command line wins over a header that agrees with it in the first
\* volume and not in a later one.
C9_Witness ==
    /\ pc = "seepi"
    /\ WarnDirs \in warnings
    /\ dwi_pe_scheme = dwi_manual_pe_scheme
    /\ SubSeq(dwi_header.pe_scheme[0], 1, 3) = SubSeq(dwi_pe_scheme[0], 1, 3)
    /\ import_dwi_pe_table_option # ""

\* C10: with the same directions in header and command-line table and
\* -readout_time given, the header table is kept exactly when in every
\* volume the two readout times are no more than 5e-3 s apart; a larger
\* difference in any volume brings a warning and the command-line table.
C10_TimesReconciled ==
    [][header_and_pe_dir /\ manual_trt # 0
          /\ ~directions_differ(dwi_pe_scheme, dwi_manual_pe_scheme) =>
          /\ pc' = "seepi"
          /\ header_kept <=> ~times_differ(dwi_pe_scheme, dwi_manual_pe_scheme)
          /\ times_differ(dwi_pe_scheme, dwi_manual_pe_scheme) =>
                /\ WarnTimes \in warnings'
                /\ WarnDirs \notin warnings'
                /\ manual_adopted
          /\ ~times_differ(dwi_pe_scheme, dwi_manual_pe_scheme) =>
                warnings' = warnings]_vars

\* The header is shorter than the command line by more than the tolerance in
\* one volume and within it in another.
C10_Witness ==
    /\ pc = "seepi"
    /\ warnings = {WarnTimes}
    /\ dwi_pe_scheme = dwi_manual_pe_scheme
    /\ \E i, j \in Volumes :
          /\ dwi_header.pe_scheme[i][4] = 220
          /\ dwi_header.pe_scheme[j][4] = 275
          /\ dwi_pe_scheme[i][4] = 250

\* C11: the reconciliation either stops the run or leaves dwi_pe_scheme with
\* one row of four values per DWI volume, which is the header table or the
\* command-line table as a whole: a design other than -rpe_header without
\* -pe_dir is fatal, -rpe_header with no table in the header is fatal, and
\* a run that goes on never has an empty or a mixed table.
C11_OneAuthoritativeScheme ==
    [][/\ pc = "manual" /\ PE_design # "Header" /\ args.pe_dir = <<>> =>
             pc' = "error" /\ errmsg' = ErrNoPeDir
       /\ pc = "reconcile" =>
             /\ PE_design = "Header" /\ dwi_pe_scheme = <<>> =>
                   pc' = "error" /\ errmsg' = ErrNoHeaderScheme
             /\ pc' \in {"seepi", "error"}
             /\ pc' = "seepi" =>
                   /\ dwi_pe_scheme' # <<>>
                   /\ DOMAIN dwi_pe_scheme' = Volumes
                   /\ \A k \in Volumes : Len(dwi_pe_scheme'[k]) = 4
                   /\ \/ dwi_pe_scheme' = dwi_header.pe_scheme
                      \/ /\ args.pe_dir # <<>>
                         /\ dwi_pe_scheme' = dwi_manual_pe_scheme]_vars

\* The command-line table replaced a header table that agrees with it in
\* one volume and not in another.
C11_Witness ==
    /\ pc = "seepi"
    /\ dwi_header.pe_scheme # <<>>
    /\ dwi_pe_scheme # dwi_header.pe_scheme
    /\ \E i, j \in Volumes :
          /\ dwi_pe_scheme[i] = dwi_header.pe_scheme[i]
          /\ dwi_pe_scheme[j] # dwi_header.pe_scheme[j]

\* ---------------------------------------------------------------------------
\* The Jacobian weights
\* ---------------------------------------------------------------------------

recombined == pc \in {"finish", "done"} /\ result.kind = "recombined"

\* The signed, readout-time-scaled derivative of the field along the
\* phase-encoding axis of the configuration whose weight multiplies volume i
\* of output volume k.
derivative_at(k, i) ==
    field_derivative(eddy_config[result.pe_indices[k][i]], result.field_gradient)

\* C12: the weight used at a voxel is (max(0, 1 + d))^2, d being the signed,
\* readout-time-scaled derivative of the field along the phase-encoding axis:
\* never negative, and 0 whenever d <= -1.
C12_WeightIsSquaredClampedJacobian ==
    recombined =>
        \A k \in DOMAIN result.weights : \A i \in 1..2 :
            LET d == derivative_at(k, i)
                w == result.weights[k][i]
            IN  /\ w >= 0
                /\ d <= -One => w = 0
                /\ d > -One => w = (One + d) * (One + d)

\* A run that recombined a pair at a voxel where d < -1 for one of its volumes
\* and d > -1 for the other.
C12_Witness ==
    /\ recombined
    /\ \E k \in DOMAIN result.weights :
          /\ derivative_at(k, 1) > -One
          /\ derivative_at(k, 2) < -One
          /\ result.weights[k][1] > 0
          /\ result.weights[k][2] = 0

\* C13: each volume of each pair is multiplied by the weight image computed
\* from that volume's own phase-encoding configuration, also in runs whose
\* first b=0 volume is not volume 0.
C13_OwnWeight ==
    recombined =>
        \A k \in DOMAIN result.pe_indices : \A i \in 1..2 :
            eddy_config[result.pe_indices[k][i]] = dwi_pe_scheme[volume_pairs[k][i]]

\* ---------------------------------------------------------------------------
\* The gradient table of the recombined series
\* ---------------------------------------------------------------------------

\* The b-value of input volume v as the input series' header states it.
input_bvalue(v) == dwi_header.dw_scheme[v][4]

\* C14: bvals_combined holds one value per pair, in the order of
\* volume_pairs, and each is the arithmetic mean of the b-values of the two
\* input volumes of the pair (twice the mean being their sum).
C14_MeanBValue ==
    recombined =>
        /\ Len(result.bvals) = Len(volume_pairs)
        /\ <<"bvals_combined", result.bvals>> \in files
        /\ \A k \in DOMAIN volume_pairs :
              result.bvals[k] = input_bvalue(volume_pairs[k][1]) + input_bvalue(volume_pairs[k][2])

\* b = 1000 and b = 1010 combined into 1005, as the second of two pairs.
C14_Witness ==
    /\ recombined
    /\ Len(volume_pairs) = 2
    /\ {input_bvalue(volume_pairs[2][1]), input_bvalue(volume_pairs[2][2])} = {1000, 1010}
    /\ result.bvals[2] = 2 * 1005

\* The direction that the file of bvecs_path holds for input volume v: the
\* file lists the volumes in the order eddy received them.
volume_bvec(v) ==
    LET order == eddy_order(dwi_first_bzero_index, dwi_num_volumes)
    IN  read_bvecs[CHOOSE p \in DOMAIN order : order[p] = v]

sum_of(u, v) == <<u[1] + v[1], u[2] + v[2], u[3] + v[3]>>

difference_of(u, v) == <<u[1] - v[1], u[2] - v[2], u[3] - v[3]>>

\* The unit vector along w as <<x, y, z, norm2>>.
normalised(w) == <<w[1], w[2], w[3], dir_norm2(w)>>

\* C15: the direction of a combined volume is the normalised sum of the two
\* volumes' directions, the normalised difference when the sum vanishes
\* (anti-parallel directions), and the zero vector only when both directions
\* are zero.
C15_CombinedDirection ==
    recombined =>
        \A k \in DOMAIN volume_pairs :
            LET u == volume_bvec(volume_pairs[k][1])
                v == volume_bvec(volume_pairs[k][2])
            IN  result.bvecs[k] =
                    IF dir_norm2(sum_of(u, v)) # 0 THEN normalised(sum_of(u, v))
                    ELSE IF dir_norm2(difference_of(u, v)) # 0
                    THEN normalised(difference_of(u, v))
                    ELSE <<0, 0, 0, 0>>

\* ---------------------------------------------------------------------------
\* Pairs of opposite phase encoding
\* ---------------------------------------------------------------------------

\* Two phase-encoding rows of exactly opposite direction and equal readout
\* time.
exactly_opposed(one, two) ==
    /\ any_direction(one)
    /\ \A i \in 1..3 : one[i] = -two[i]
    /\ one[4] = two[4]

\* The combined volume (v0 * w0 + v1 * w1) / (w0 + w1) of output volume k is
\* the unweighted average (v0 + v1) / 2 whatever v0 and v1 are.
unweighted_average(k) ==
    /\ result.weights[k][1] = result.weights[k][2]
    /\ result.weights[k][1] > 0

times_run(c) == Cardinality({i \in DOMAIN cmds : cmds[i] = c})

\* The eddy stage has been gone through, to its end or to a fatal error.
eddy_attempted == eddy_outputs # <<>>

cuda_output == eddy_outputs[1]

openmp_output == eddy_outputs[2]

\* C17: eddy is invoked at most twice; the CUDA binary, when available, is
\* tried first; the OpenMP binary is run once afterwards exactly when it is
\* available and no CUDA run produced dwi_post_eddy.eddy_parameters, never
\* after a successful CUDA run; a failed CUDA run without an OpenMP binary and
\* a failed OpenMP run end the run at once with a fatal error.
C17_EddyFallback ==
    /\ times_run("eddy_cuda") <= 1
    /\ times_run("eddy_openmp") <= 1
    /\ ~eddy_attempted => times_run("eddy_cuda") = 0 /\ times_run("eddy_openmp") = 0
    /\ eddy_attempted =>
          /\ times_run("eddy_cuda") = 1 <=> env.eddy_cuda
          /\ \A i, j \in DOMAIN cmds : cmds[i] = "eddy_cuda" /\ cmds[j] = "eddy_openmp" => i < j
          /\ times_run("eddy_openmp") = 1
                <=> env.eddy_openmp /\ ~(env.eddy_cuda /\ cuda_output.parameters)
          /\ env.eddy_cuda /\ cuda_output.exit_ok => times_run("eddy_openmp") = 0
          /\ (env.eddy_cuda /\ ~cuda_output.exit_ok /\ ~env.eddy_openmp)
                => pc = "error" /\ errmsg = ErrEddyCuda /\ cmds[Len(cmds)] = "eddy_cuda"
          /\ (times_run("eddy_openmp") = 1 /\ ~openmp_output.exit_ok)
                => pc = "error" /\ errmsg = ErrEddyOpenmp /\ cmds[Len(cmds)] = "eddy_openmp"

\* A run that finished after the CUDA binary had failed without leaving
\* dwi_post_eddy.eddy_parameters and the OpenMP binary had then succeeded.
C17_Witness ==
    /\ pc = "done"
    /\ env.eddy_cuda
    /\ ~cuda_output.exit_ok
    /\ ~cuda_output.parameters
    /\ openmp_output.exit_ok
    /\ times_run("eddy_cuda") = 1
    /\ times_run("eddy_openmp") = 1
    /\ WarnCudaFailed \in warnings

\* ---------------------------------------------------------------------------
\* Temporary files
\* ---------------------------------------------------------------------------

\* C19: no external command is given a temporary file that has been deleted,
\* and every temporary file a command is given was created earlier in the
\* run.
C19_NoStaleRead == \A e \in tmp.stale : e[1] = "open"

\* ---------------------------------------------------------------------------
\* Argument validation
\* ---------------------------------------------------------------------------

\* What the command line and the environment must satisfy.
valid_arguments ==
    /\ Cardinality({f \in RpeFlags : args[f]}) = 1
    /\ args.rpe_pair => args.se_epi
    /\ ~(args.rpe_none /\ args.se_epi)
    /\ ~(args.rpe_header /\ args.pe_dir # <<>>)
    /\ ~(args.rpe_header /\ args.readout_time # 0)
    /\ args.align_seepi => args.se_epi
    /\ env.FSLDIR
    /\ env.eddy_cuda \/ env.eddy_openmp

finished_unrotated ==
    /\ eddy_attempted
    /\ errmsg \notin {ErrEddyCuda, ErrEddyOpenmp, ErrNoEddyImage}
    /\ ~cuda_output.rotated
    /\ ~openmp_output.rotated

\* The direction of input volume v in the input series' gradient table.
input_bvec(v) == SubSeq(dwi_header.dw_scheme[v], 1, 3)

\* C20: when eddy finishes without dwi_post_eddy.eddy_rotated_bvecs the run
\* warns and goes on with the file 'bvecs': the output series has the input
\* directions when the volumes are not recombined, and the directions combined
\* from 'bvecs' when they are; the run is not ended for want of the file.
C20_UnrotatedFallback ==
    finished_unrotated =>
        /\ WarnNoRotatedBvecs \in warnings
        /\ bvecs_path = "bvecs"
        /\ "dwi_post_eddy.eddy_rotated_bvecs" \notin tmp.live
        /\ pc = "error" => errmsg \in {ErrNoFieldMap, ErrMrcat}
        /\ result.kind = "uncombined" =>
              \A k \in DOMAIN result.bvecs : result.bvecs[k] = input_bvec(k - 1)
        /\ result.kind = "recombined" =>
              result.bvecs = bvecs_combined(volume_pairs, bvecs)

\* A finished run that recombined two volumes of non-zero direction after
\* eddy had left no rotated bvecs.
C20_Witness ==
    /\ pc = "done"
    /\ finished_unrotated
    /\ WarnNoRotatedBvecs \in warnings
    /\ result.kind = "recombined"
    /\ \E k \in DOMAIN result.bvecs : result.bvecs[k][4] # 0

\* ---------------------------------------------------------------------------
\* The life of the weight images
\* ---------------------------------------------------------------------------

weight_file(c) == "weight" \o ToString(c) \o ".mif"

\* The numbers a weight image can bear: no series has more phase-encoding
\* configurations than volumes.
WeightNumbers == 1..(dwi_header.num_volumes + 1)

\* Positions in the log at which weight image c is written, and deleted.
weight_created_at(c) ==
    {p \in DOMAIN tmp.log : tmp.log[p].op = "run" /\ weight_file(c) \in tmp.log[p].writes}

weight_deleted_at(c) ==
    {p \in DOMAIN tmp.log : tmp.log[p].op = "del" /\ weight_file(c) \in tmp.log[p].writes}

\* Positions in the log at which a pair is combined (line 1311).
combined_at ==
    {p \in DOMAIN tmp.log : tmp.log[p].op = "run" /\ "volume0.mif" \in tmp.log[p].reads}

\* The weight images the command at position p is given.
weights_read_at(p) == {c \in WeightNumbers : weight_file(c) \in tmp.log[p].reads}

\* The recombination has gone through the loop over the pairs.
pairs_combined == recombined \/ (pc = "error" /\ errmsg = ErrMrcat)

\* C21: in a run that recombines, one weight image is written for each row of
\* eddy_config and none else, each once and before the first pair is
\* combined; the combination of a pair is given only weight images written
\* and not yet deleted; and no weight image is deleted before the last pair
\* has been combined.
C21_WeightImageLife ==
    pairs_combined =>
        /\ Cardinality(combined_at) = Len(volume_pairs)
        /\ \A c \in WeightNumbers :
              Cardinality(weight_created_at(c)) = IF c <= Len(eddy_config) THEN 1 ELSE 0
        /\ \A c \in 1..Len(eddy_config) : \A w \in weight_created_at(c) :
              \A p \in combined_at : w < p
        /\ \A p \in combined_at : \A c \in weights_read_at(p) :
              /\ \E w \in weight_created_at(c) : w < p
              /\ \A d \in weight_deleted_at(c) : p < d
        /\ \A c \in WeightNumbers : \A d \in weight_deleted_at(c) :
              \A p \in combined_at : p < d
        /\ \A c \in 1..Len(eddy_config) : Cardinality(weight_deleted_at(c)) = 1

\* Two pairs combined, each given the same two weight images, which are
\* deleted afterwards.
C21_Witness ==
    /\ pc = "done"
    /\ recombined
    /\ Len(eddy_config) = 2
    /\ Cardinality(combined_at) = 2
    /\ \A p \in combined_at : weights_read_at(p) = {1, 2}
    /\ weight_file(1) \notin tmp.live
    /\ weight_file(2) \notin tmp.live

\* ---------------------------------------------------------------------------
\* The order of the matching after eddy (under SpecMatching)
\* ---------------------------------------------------------------------------

\* Volumes i and j may be paired: phase encodings that sum to zero and
\* gradients that match.
compatible(i, j) ==
    /\ pe_opposed(dwi_pe_scheme[i], dwi_pe_scheme[j])
    /\ grads_match(grad[i], grad[j])

\* Volume j > i was in no pair when the outer loop came to i: the pairs
\* formed by then are those with a first index below i, and the first index
\* of the pair of j, if any, is the smaller of j and its partner.
free_when(j, i) ==
    volume_matchings[j] = dwi_num_volumes \/ volume_matchings[j] >= i

\* C22: every pair [i, j] has i < j, j being the smallest index above i that
\* was in no pair when i was processed and that is compatible with i; the
\* pairs are listed by strictly increasing first index; and a volume left
\* unpaired had no compatible volume above it that was in no pair when it was
\* processed.
C22_GreedyFirstFit ==
    matching_done =>
        /\ \A k \in DOMAIN volume_pairs :
              LET i == volume_pairs[k][1]
                  j == volume_pairs[k][2]
              IN  /\ i < j
                  /\ compatible(i, j)
                  /\ free_when(j, i)
                  /\ \A l \in (i + 1)..(j - 1) : ~(free_when(l, i) /\ compatible(i, l))
        /\ \A k \in 1..(Len(volume_pairs) - 1) :
              volume_pairs[k][1] < volume_pairs[k + 1][1]
        /\ \A i \in Volumes :
              volume_matchings[i] = dwi_num_volumes =>
                  \A j \in (i + 1)..(dwi_num_volumes - 1) :
                      ~(free_when(j, i) /\ compatible(i, j))

\* Volume 0 had two volumes to pair with and took the lower; a later volume
\* passed over a compatible volume that was already in a pair.
C22_Witness ==
    /\ matching_done
    /\ \E j, l \in Volumes :
          /\ volume_matchings[0] = j
          /\ j < l
          /\ compatible(0, l)
          /\ free_when(l, 0)
    /\ \E k \in DOMAIN volume_pairs :
          \E l \in (volume_pairs[k][1] + 1)..(volume_pairs[k][2] - 1) :
              /\ compatible(volume_pairs[k][1], l)
              /\ ~free_when(l, volume_pairs[k][1])

\* ---------------------------------------------------------------------------
\* The two matchings of the -rpe_all design (under Spec)
\* ---------------------------------------------------------------------------

pair_set(pairs) == {pairs[k] : k \in DOMAIN pairs}

\* C23: under -rpe_all, once a run has passed the matching of the first half
\* against the second, the matching after eddy finds the very pairs of
\* grad_pairs, n/2 of them; the run takes the recombination branch, and a run
\* that ends well has the recombined series for its output, never the
\* non-recombined one.
C23_RpeAllPairsAgree ==
    args.rpe_all =>
        /\ matching_done =>
              /\ pair_set(volume_pairs) = pair_set(grad_pairs)
              /\ 2 * Len(volume_pairs) = dwi_num_volumes
              /\ recombine(volume_pairs, dwi_num_volumes)
        /\ result.kind # "uncombined"
        /\ pc \in {"finish", "done"} => result.kind = "recombined"

\* A finished -rpe_all run over four volumes in which the first volume's
\* partner is the last volume, not the first of the second half.
C23_Witness ==
    /\ pc = "done"
    /\ args.rpe_all
    /\ dwi_num_volumes = 4
    /\ grad_pairs = << <<0, 3>>, <<1, 2>> >>
    /\ volume_pairs = grad_pairs
    /\ result.kind = "recombined"

\* ---------------------------------------------------------------------------
\* Recombination and topup
\* ---------------------------------------------------------------------------

\* The else branch of line 1146 has been entered: its first act is to write
\* bvecs_combined.
recombination_entered == \E f \in files : f[1] = "bvecs_combined"

\* C24: the recombination branch, which reads the field map of topup, is
\* entered only in runs in which topup has been run; a run without topup
\* (-rpe_none, or -rpe_header with no phase-encoding contrast between the b=0
\* volumes) takes the non-recombined branch, whatever the number of volumes.
C24_RecombinationNeedsTopup ==
    /\ recombination_entered => do_topup /\ "topup" \in {cmds[k] : k \in DOMAIN cmds}
    /\ matching_done /\ ~do_topup /\ pc # "output" =>
          pc \in {"finish", "done"} /\ result.kind = "uncombined"

\* ---------------------------------------------------------------------------
\* The volume permutation around eddy
\* ---------------------------------------------------------------------------

\* The script has built the two -coord 3 options (lines 868-881).
options_built == pc \in {"topup", "eddy", "match", "output", "finish", "done"}

\* C25: whenever the index k of the first b=0 volume is not 0, the volumes
\* picked before eddy are a permutation of 0..n-1 with volume k first and the
\* others in their original order, and picking the volumes of eddy's output
\* by the post-eddy option puts every volume back in its place; for every n
\* and every k the scan of the gradient table can give, a table without a
\* b=0 volume included.
C25_PermutationAndInverse ==
    options_built /\ dwi_first_bzero_index # 0 =>
        LET n == dwi_num_volumes
            pre == dwi_permute_volumes_pre_eddy(dwi_first_bzero_index, n)
            post == dwi_permute_volumes_post_eddy(dwi_first_bzero_index, n)
        IN  /\ Len(pre) = n
            /\ {pre[p] : p \in 1..Len(pre)} = 0..(n - 1)
            /\ pre[1] = dwi_first_bzero_index
            /\ \A p, q \in 2..Len(pre) : p < q => pre[p] < pre[q]
            /\ Len(post) = n
            /\ coord3_valid(post, n)
            /\ restored_order(dwi_first_bzero_index, n) = [v \in 0..(n - 1) |-> v]

\* ---------------------------------------------------------------------------
\* The volumes whose directions are combined
\* ---------------------------------------------------------------------------

sign_of(x) == IF x > 0 THEN 1 ELSE IF x < 0 THEN -1 ELSE 0

\* <<x, y, z, norm2>> and <<x', y', z', norm2'>> stand for the same vector.
same_vector(u, v) ==
    IF u[4] = 0 \/ v[4] = 0 THEN u[4] = v[4]
    ELSE \A i \in 1..3 :
            /\ sign_of(u[i]) = sign_of(v[i])
            /\ u[i] * u[i] * v[4] = v[i] * v[i] * u[4]

\* C28: the direction of the combined volume of pair [a, b] is computed, by
\* the script's rule, from the directions that the file of bvecs_path holds
\* for the input volumes a and b themselves, also in runs whose volumes were
\* permuted for eddy.
C28_DirectionsOfOwnVolumes ==
    recombined =>
        \A k \in DOMAIN volume_pairs :
            same_vector(result.bvecs[k],
                        combined_bvec(volume_bvec(volume_pairs[k][1]),
                                      volume_bvec(volume_pairs[k][2])))

\* ---------------------------------------------------------------------------
\* The assumed readout time (under SpecReconcile)
\* ---------------------------------------------------------------------------

\* The run is past the comparison of header and command line.
reconciled == pc \in {"seepi", "topup", "eddy", "match", "output", "finish", "done"}

\* The table lines 450-532 build from -pe_dir when no -readout_time is given.
default_time_scheme ==
    manual_schemes(PE_design, args.pe_dir, auto_trt, dwi_num_volumes, grad,
                   se_epi_header.num_volumes).dwi

\* -pe_dir is given without -readout_time, and the header has a table whose
\* directions are those of -pe_dir in every volume.
default_time_against_header ==
    /\ args.pe_dir # <<>>
    /\ args.readout_time = 0
    /\ dwi_header.pe_scheme # <<>>
    /\ ~directions_differ(dwi_header.pe_scheme, default_time_scheme)

\* C26: the readout time of 0.1 s assumed for -pe_dir without -readout_time
\* never takes the place of a readout time of the DWI header: when the header
\* has a table whose directions agree with -pe_dir, that table, readout times
\* and all, is the authoritative one for the rest of the run, and no manual
\* table is written or imported, whatever the header's readout times.
C26_DefaultTimeKeepsHeader ==
    reconciled /\ default_time_against_header =>
        /\ trt = auto_trt
        /\ dwi_pe_scheme = dwi_header.pe_scheme
        /\ ~overwrite_dwi_pe_scheme
        /\ dwi_manual_pe_scheme = <<>>
        /\ import_dwi_pe_table_option = ""
        /\ \A f \in files : f[1] # "dwi_manual_pe_scheme.txt"
        /\ "dwi_manual_pe_scheme.txt" \notin tmp.live
        /\ WarnTimes \notin warnings
        /\ \A c \in DOMAIN eddy_config : \E k \in Volumes : eddy_config[c] = dwi_header.pe_scheme[k]

\* A finished run with -pe_dir and no -readout_time over a header whose
\* readout times, 220 and 275, are both far from the assumed 512: eddy was
\* given the header's times.
C26_Witness ==
    /\ pc = "done"
    /\ default_time_against_header
    /\ dwi_auto_trt_warning
    /\ \E i, j \in Volumes : dwi_header.pe_scheme[i][4] = 220 /\ dwi_header.pe_scheme[j][4] = 275
    /\ {eddy_config[c][4] : c \in DOMAIN eddy_config} = {220, 275}

\* ---------------------------------------------------------------------------
\* The manual SE-EPI table (under SpecPair)
\* ---------------------------------------------------------------------------

\* The tables written to se_epi_manual_pe_scheme.txt.
se_epi_tables_written == {f[2] : f \in {g \in files : g[1] = "se_epi_manual_pe_scheme.txt"}}

\* The first DWI b=0 volume has been put at the head of the SE-EPI series.
first_bzero_inserted ==
    \E p \in DOMAIN tmp.log : "dwi_first_bzero.mif" \in tmp.log[p].reads

row_direction(row) == SubSeq(row, 1, 3)

\* C29: a table written to se_epi_manual_pe_scheme.txt (design -rpe_pair) has
\* one row of four numbers for each volume of the SE-EPI series handed to
\* topup; without -align_seepi insertion its first half has the direction of
\* -pe_dir and its second half the opposite one; after the first DWI b=0
\* volume has been inserted or substituted its first row has the direction of
\* that DWI volume.
C29_ManualSeEpiTable ==
    \A table \in se_epi_tables_written :
        LET num == Cardinality(DOMAIN table)
        IN  /\ PE_design = "Pair"
            /\ DOMAIN table = 0..(num - 1)
            /\ num = se_epi_volumes
            /\ \A k \in DOMAIN table : DOMAIN table[k] = 1..4
            /\ ~first_bzero_inserted =>
                  /\ num % 2 = 0
                  /\ \A k \in DOMAIN table :
                        row_direction(table[k]) =
                            IF 2 * k < num THEN args.pe_dir ELSE reversed_dir(args.pe_dir)
            /\ first_bzero_inserted =>
                  row_direction(table[0]) = row_direction(dwi_pe_scheme[dwi_first_bzero_index])

\* -align_seepi over an SE-EPI series of four volumes without a table of its
\* own: the first DWI b=0 volume, which is volume 1, takes the place of the
\* first SE-EPI volume and the table written has four rows.
C29_Witness ==
    /\ pc = "done"
    /\ first_bzero_inserted
    /\ dwi_first_bzero_index = 1
    /\ se_epi_header.num_volumes = 4
    /\ se_epi_header.pe_scheme = <<>>
    /\ se_epi_volumes = 4
    /\ \E table \in se_epi_tables_written : Cardinality(DOMAIN table) = 4

\* ---------------------------------------------------------------------------
\* The order of the external tools (under SpecTools)
\* ---------------------------------------------------------------------------

\* Positions in the log at which command c was run.
run_at(c) == {p \in DOMAIN tmp.log : tmp.log[p].op = "run" /\ tmp.log[p].cmd = c}

eddy_at == run_at("eddy_cuda") \cup run_at("eddy_openmp")

\* The images of eddy's output on their way to result.mif.
EddyOutputImages ==
    {eddy_output_image_path, restored_path(FALSE), restored_path(TRUE), "result.mif"}

\* Positions of the commands of the recombination and of the output.
output_at ==
    {p \in DOMAIN tmp.log :
        /\ tmp.log[p].op = "run"
        /\ \/ tmp.log[p].cmd \in {"mrcalc|mrfilter|mrconvert", "mrcalc", "mrcat|mrconvert"}
           \/ tmp.log[p].reads \cap EddyOutputImages # {}}

\* The run is past the topup stage.
past_topup == pc \in {"eddy", "match", "output", "finish", "done"}

\* C30: the tools run one after another in a fixed order.  topup is run
\* exactly when do_topup is true, and never under -rpe_none; it is over before
\* any applytopup, every applytopup is over before eddy starts, and eddy is
\* over before any command of the recombination or the output; eddy is given
\* --topup=field (topup's output files) exactly when topup has run.
C30_ToolOrder ==
    /\ Cardinality(run_at("topup")) <= 1
    /\ run_at("topup") # {} => do_topup /\ ~args.rpe_none
    /\ past_topup => (run_at("topup") # {} <=> do_topup)
    /\ run_at("applytopup") # {} => run_at("topup") # {}
    /\ \A t \in run_at("topup") : \A a \in run_at("applytopup") : t < a
    /\ \A t \in run_at("topup") : \A e \in eddy_at : t < e
    /\ \A a \in run_at("applytopup") : \A e \in eddy_at : a < e
    /\ output_at # {} => eddy_at # {}
    /\ \A e \in eddy_at : \A o \in output_at : e < o
    /\ \A e \in eddy_at :
          topup_out \subseteq tmp.log[e].reads <=> run_at("topup") # {}
    /\ \A e \in eddy_at :
          tmp.log[e].reads \cap topup_out # {} => run_at("topup") # {}

\* A finished run in which topup, two runs of applytopup, the CUDA and the
\* OpenMP binary of eddy and the recombination followed each other.
C30_Witness ==
    /\ pc = "done"
    /\ Cardinality(run_at("topup")) = 1
    /\ Cardinality(run_at("applytopup")) = 2
    /\ Cardinality(eddy_at) = 2
    /\ result.kind = "recombined"
    /\ \E o \in output_at : tmp.log[o].cmd = "mrcat|mrconvert"

----------------------------------------------------------------------------
(* C27                                                                     *)

\* Every slice 0..num-1 is in exactly one group, and no group is empty.
is_partition(groups, num) ==
    /\ \A g \in 1..Len(groups) : Len(groups[g]) > 0
    /\ slices_of(groups) \subseteq 0..(num - 1)
    /\ \A slice \in 0..(num - 1) :
          Cardinality({ <<g, k>> \in (1..Len(groups)) \X (1..num) :
                          k <= Len(groups[g]) /\ groups[g][k] = slice }) = 1

\* Each group holds the mirror images, along the slice axis, of the slices of
\* the supplied group in the same place.
reversed_counterparts(groups, supplied, num) ==
    /\ Len(groups) = Len(supplied)
    /\ \A g \in 1..Len(supplied) :
          {groups[g][k] : k \in 1..Len(groups[g])}
             = {num - 1 - supplied[g][k] : k \in 1..Len(supplied[g])}

\* The groups came from a slspec file of the user, and the slices run
\* against the third axis.
reversed_slspec_file ==
    /\ slice_timing = <<>>
    /\ slice_groups # <<>>
    /\ sum_direction(slice_encoding_direction) < 0

\* C27: whenever --mporder is requested, the step that writes slspec.txt
\* writes groups that are a partition of the slices 0..dwi_num_slices-1,
\* whether they come from the slice timing of the header or from a slspec
\* file, padded or not; and when the groups come from a slspec file and the
\* slice encoding direction is k-, they are the reversed counterparts of
\* the supplied groups.
C27_SlspecPartition ==
    [][(pc = "eddy" /\ eddy_mporder) =>
          /\ <<"slspec.txt", slice_groups'>> \in files'
          /\ is_partition(slice_groups', dwi_num_slices')
          /\ reversed_slspec_file =>
                reversed_counterparts(slice_groups', slice_groups, dwi_num_slices)]_vars

====
